---------------------------- MODULE Spec2Model ----------------------------
(***************************************************************************)
(* A model of the request/reply engine of the KUSANAGI Python SDK:         *)
(*   - the path-addressed payload documents (kusanagi/sdk/lib/payload),    *)
(*   - the transport bound to a reply and the Action API that writes it,   *)
(*   - the component server loop (kusanagi/sdk/lib/server.py).             *)
(*                                                                         *)
(* Payload values are tagged records, so that values of different Python   *)
(* types can be compared:                                                  *)
(*   dict  [t |-> "map",  m |-> function from keys to values]              *)
(*   list  [t |-> "list", l |-> sequence of values]                        *)
(*   str   [t |-> "str",  s |-> string]                                    *)
(*   int   [t |-> "int",  n |-> number]                                    *)
(*   None  [t |-> "none"]                                                  *)
(*   an object msgpack cannot serialize  [t |-> "obj"]                     *)
(***************************************************************************)
EXTENDS Integers, Sequences, FiniteSets, TLC

----------------------------------------------------------------------------
(* Payload namespaces (the keys of the wire documents).                    *)

ns == [
    COMMAND |-> "command",
    ARGUMENTS |-> "arguments",
    COMMAND_REPLY |-> "command_reply",
    RESULT |-> "result",
    NAME |-> "name",
    TRANSPORT |-> "transport",
    RETURN |-> "return",
    META |-> "meta",
    GATEWAY |-> "gateway",
    PROPERTIES |-> "properties",
    FALLBACKS |-> "fallbacks",
    DATA |-> "data",
    RELATIONS |-> "relations",
    LINKS |-> "links",
    CALLS |-> "calls",
    TRANSACTIONS |-> "transactions",
    ERRORS |-> "errors",
    BODY |-> "body",
    FILES |-> "files",
    VERSION |-> "version",
    CALLER |-> "caller",
    DURATION |-> "duration",
    TIMEOUT |-> "timeout",
    ERROR |-> "error",
    MESSAGE |-> "message",
    CODE |-> "code",
    STATUS |-> "status",
    ATTRIBUTES |-> "attributes",
    CALL |-> "call",
    SERVICE |-> "service",
    PARAMS |-> "params",
    RESPONSE |-> "response",
    HEADERS |-> "headers",
    TYPE |-> "type",
    ID |-> "id",
    DEFERRED_CALLS |-> "deferred_calls",
    ORIGIN |-> "origin"]
\* ns.ACTION and ns.ACTIONS (both are reserved words of TLA+).
ns_ACTION  == "action"
ns_ACTIONS == "actions"

----------------------------------------------------------------------------
(* Values.                                                                 *)

None      == [t |-> "none"]
Obj       == [t |-> "obj"]
Str(s)    == [t |-> "str", s |-> s]
Num(n)    == [t |-> "int", n |-> n]
ListV(q)  == [t |-> "list", l |-> q]
MapV(f)   == [t |-> "map", m |-> f]
EmptyMap  == MapV(<<>>)
EmptyList == ListV(<<>>)

IsMap(v)  == v.t = "map"
IsList(v) == v.t = "list"

\* dict[k] = v
MapPut(f, k, v) == [x \in (DOMAIN f) \cup {k} |-> IF x = k THEN v ELSE f[x]]
\* del dict[k]
\* A one-entry dict, and a dict literal of two, three entries.
Map1(k, v) == MapV(MapPut(<<>>, k, v))
Map2(k1, v1, k2, v2) == MapV(MapPut(MapPut(<<>>, k1, v1), k2, v2))
Map3(k1, v1, k2, v2, k3, v3) == MapV(MapPut(MapPut(MapPut(<<>>, k1, v1), k2, v2), k3, v3))

\* bool(value) as Python's "if data": empty containers, '' and None are false.
Truthy(v) ==
    CASE v.t = "map"  -> DOMAIN v.m # {}
      [] v.t = "list" -> Len(v.l) > 0
      [] v.t = "str"  -> v.s # ""
      [] v.t = "int"  -> v.n # 0
      [] v.t = "none" -> FALSE
      [] OTHER        -> TRUE

\* Whether msgpack.packb can serialize the value: every node must be a
\* dict, a list, a string, a number or None.
RECURSIVE Packable(_)
Packable(v) ==
    CASE v.t = "map"  -> \A k \in DOMAIN v.m : Packable(v.m[k])
      [] v.t = "list" -> \A i \in 1..Len(v.l) : Packable(v.l[i])
      [] v.t = "obj"  -> FALSE
      [] OTHER        -> TRUE

----------------------------------------------------------------------------
(* Payload: the path operations of a document.  Each takes the full path   *)
(* (the class prefix already applied, see the *Prefix operators below).    *)
(* A mutator returns [ok |-> the boolean it returns, doc |-> the document  *)
(* afterwards].                                                            *)

\* Payload.exists: the loop over the path ends without a TypeError/KeyError.
RECURSIVE Payload_exists(_, _)
Payload_exists(doc, path) ==
    IF path = <<>> THEN TRUE
    ELSE IF IsMap(doc) /\ Head(path) \in DOMAIN doc.m
         THEN Payload_exists(doc.m[Head(path)], Tail(path))
         ELSE FALSE

\* Payload.get
RECURSIVE Payload_get(_, _, _)
Payload_get(doc, path, default) ==
    IF path = <<>> THEN doc
    ELSE IF IsMap(doc) /\ Head(path) \in DOMAIN doc.m
         THEN Payload_get(doc.m[Head(path)], Tail(path), default)
         ELSE default

\* Payload.equals: the value at the end of the path is compared; False when
\* the path is not traversed in full.
RECURSIVE Payload_equals(_, _, _)
Payload_equals(doc, path, value) ==
    IF path = <<>> THEN doc = value
    ELSE IF IsMap(doc) /\ Head(path) \in DOMAIN doc.m
         THEN Payload_equals(doc.m[Head(path)], Tail(path), value)
         ELSE FALSE

\* Payload.set: item[name] = value on the last name, item.setdefault(name, {})
\* before it; False when an item on the way is not a dict.
RECURSIVE Payload_set(_, _, _)
Payload_set(doc, path, value) ==
    IF path = <<>> THEN [ok |-> TRUE, doc |-> doc]
    ELSE IF ~IsMap(doc) THEN [ok |-> FALSE, doc |-> doc]
    ELSE IF Len(path) = 1
         THEN [ok |-> TRUE, doc |-> MapV(MapPut(doc.m, Head(path), value))]
         ELSE LET child == IF Head(path) \in DOMAIN doc.m
                           THEN doc.m[Head(path)] ELSE EmptyMap
                  r == Payload_set(child, Tail(path), value)
              IN  IF r.ok
                  THEN [ok |-> TRUE, doc |-> MapV(MapPut(doc.m, Head(path), r.doc))]
                  ELSE [ok |-> FALSE, doc |-> doc]

\* Not the code: an extend that puts a list in the place of a value that is
\* not a list.
RECURSIVE extend_over_scalar(_, _, _)
extend_over_scalar(doc, path, values) ==
    IF path = <<>> \/ ~IsMap(doc) THEN [ok |-> FALSE, doc |-> doc]
    ELSE IF Len(path) = 1
         THEN LET cur == IF Head(path) \in DOMAIN doc.m /\ IsList(doc.m[Head(path)])
                         THEN doc.m[Head(path)].l ELSE <<>>
              IN  [ok |-> TRUE,
                   doc |-> MapV(MapPut(doc.m, Head(path), ListV(cur \o values)))]
         ELSE LET child == IF Head(path) \in DOMAIN doc.m
                           THEN doc.m[Head(path)] ELSE EmptyMap
                  r == extend_over_scalar(child, Tail(path), values)
              IN  IF r.ok
                  THEN [ok |-> TRUE, doc |-> MapV(MapPut(doc.m, Head(path), r.doc))]
                  ELSE [ok |-> FALSE, doc |-> doc]

\* Payload.extend: item.setdefault(name, []) on the last name, extended when
\* it is a list.  Payload.append is the same with one value.
RECURSIVE Payload_extend(_, _, _)
Payload_extend(doc, path, values) ==
    IF path = <<>> THEN [ok |-> FALSE, doc |-> doc]
    ELSE IF ~IsMap(doc) THEN [ok |-> FALSE, doc |-> doc]
    ELSE IF Len(path) = 1
         THEN LET cur == IF Head(path) \in DOMAIN doc.m
                         THEN doc.m[Head(path)] ELSE EmptyList
              IN  IF IsList(cur)
                  THEN [ok |-> TRUE,
                        doc |-> MapV(MapPut(doc.m, Head(path), ListV(cur.l \o values)))]
                  ELSE [ok |-> FALSE, doc |-> doc]
         ELSE LET child == IF Head(path) \in DOMAIN doc.m
                           THEN doc.m[Head(path)] ELSE EmptyMap
                  r == Payload_extend(child, Tail(path), values)
              IN  IF r.ok
                  THEN [ok |-> TRUE, doc |-> MapV(MapPut(doc.m, Head(path), r.doc))]
                  ELSE [ok |-> FALSE, doc |-> doc]

\* Payload.append
Payload_append(doc, path, value) == Payload_extend(doc, path, <<value>>)

\* Not the code: a delete that only removes a key of the document itself.
delete_top_only(doc, path) ==
    IF Len(path) = 1 /\ IsMap(doc) /\ Head(path) \in DOMAIN doc.m
    THEN [ok |-> TRUE, doc |-> MapV([x \in (DOMAIN doc.m) \ {Head(path)} |-> doc.m[x]])]
    ELSE [ok |-> FALSE, doc |-> doc]

\* Payload.delete: removes the last name from the dict found at the rest of
\* the path.
RECURSIVE Payload_delete(_, _)
Payload_delete(doc, path) ==
    IF path = <<>> \/ ~IsMap(doc) \/ Head(path) \notin DOMAIN doc.m
    THEN [ok |-> FALSE, doc |-> doc]
    ELSE IF Len(path) = 1
         THEN [ok |-> TRUE, doc |-> MapV([x \in (DOMAIN doc.m) \ {Head(path)} |-> doc.m[x]])]
         ELSE LET r == Payload_delete(doc.m[Head(path)], Tail(path))
              IN  IF r.ok
                  THEN [ok |-> TRUE, doc |-> MapV(MapPut(doc.m, Head(path), r.doc))]
                  ELSE [ok |-> FALSE, doc |-> doc]

----------------------------------------------------------------------------
(* Wire bytes.  A frame is b'' , bytes msgpack cannot decode, or the       *)
(* msgpack encoding of a value.  The id and action frames are text that is *)
(* valid UTF-8 or not.                                                     *)

EmptyBytes == [b |-> "empty"]
BadBytes   == [b |-> "bad"]
Packed(v)  == [b |-> "pack", v |-> v]

\* bool(bytes): non-empty.
NonEmptyBytes(b) == b.b # "empty"
\* msgpack.unpack raises on anything that is not an encoding.
CanUnpack(b) == b.b = "pack"

\* msgpack._encode: a Decimal, a datetime, a date or a time.struct_time as
\* the list ['type', name, form]; TypeError for any other object.  A decimal
\* is the text before and after the point of str(obj); a datetime is the
\* text of its date and time, to which strftime adds "+00:00" whatever its
\* time zone; a struct_time is formatted as its time of day.
msgpack_encode(obj) ==
    LET typed(name, form) ==
            [raised |-> "", value |-> ListV(<<Str("type"), Str(name), form>>)]
    IN  CASE obj.t = "decimal" ->
                typed("decimal", ListV(IF obj.frac = "" THEN <<Str(obj.int)>>
                                       ELSE <<Str(obj.int), Str(obj.frac)>>))
          [] obj.t = "datetime" -> typed("datetime", Str(obj.wall \o "+00:00"))
          [] obj.t = "date" -> typed("date", Str(obj.iso))
          [] obj.t = "time" -> typed("time", Str(obj.hms))
          [] OTHER -> [raised |-> "TypeError", value |-> None]

\* msgpack._decode, the list hook: a list of three that starts with 'type'
\* is decoded by its type name; an exception while decoding gives None; a
\* list with any other type name leaves the if chain without a return and
\* is returned as it is, like every other list.  The texts that parse are
\* the numerals, dates and datetimes below; '.'.join of a text of one
\* character is that text (texts of digits of two and more characters, and
\* empty texts, are not among the values here).
msgpack_decode(data) ==
    LET Numerals == {"123", "321", "5", "0"}
        IsoDates == {"2017-01-27"}
        Walls == {"2017-01-27T20:12:08.952811"}
        name == data.l[2]
        form == data.l[3]
        texts == [i \in 1..Len(form.l) |-> form.l[i].s]
    IN  IF Len(data.l) = 3 /\ data.l[1] = Str("type")
        THEN CASE name = Str("decimal") ->
                    IF form.t = "str"
                    THEN IF form.s \in {"5", "0"}
                         THEN [t |-> "decimal", int |-> form.s, frac |-> ""]
                         ELSE None
                    ELSE IF form.t = "list" /\ Len(form.l) \in {1, 2}
                            /\ \A i \in 1..Len(form.l) :
                                  form.l[i].t = "str" /\ form.l[i].s \in Numerals
                    THEN [t |-> "decimal", int |-> texts[1],
                          frac |-> IF Len(form.l) = 2 THEN texts[2] ELSE ""]
                    ELSE None
               [] name = Str("datetime") ->
                    IF form.t = "str" /\ \E w \in Walls : form.s = w \o "+00:00"
                    THEN [t |-> "datetime", tz |-> "",
                          wall |-> CHOOSE w \in Walls : form.s = w \o "+00:00"]
                    ELSE None
               [] name = Str("date") ->
                    IF form.t = "str" /\ form.s \in IsoDates
                    THEN [t |-> "date", iso |-> form.s]
                    ELSE None
               [] name = Str("time") -> form
               [] OTHER -> data
        ELSE data

\* msgpack.unpack: unpackb with list_hook=_decode, which is called on every
\* list once its items are unpacked.
unpack(b) ==
    LET RECURSIVE Hooked(_)
        Hooked(v) ==
            CASE v.t = "map"  -> MapV([k \in DOMAIN v.m |-> Hooked(v.m[k])])
              [] v.t = "list" ->
                    msgpack_decode(ListV([i \in 1..Len(v.l) |-> Hooked(v.l[i])]))
              [] OTHER -> v
    IN  Hooked(b.v)

\* msgpack.pack: packb with default=_encode, which is called on every object
\* that is not of a native type; it raises TypeError on an unserializable
\* object (not Packable).
pack(v) ==
    LET RECURSIVE Native(_)
        Native(x) ==
            CASE x.t = "map"  -> MapV([k \in DOMAIN x.m |-> Native(x.m[k])])
              [] x.t = "list" -> ListV([i \in 1..Len(x.l) |-> Native(x.l[i])])
              [] x.t \in {"decimal", "datetime", "date", "time"} ->
                    Native(msgpack_encode(x).value)
              [] OTHER -> x
    IN  Packed(Native(v))

Utf8(s)    == [utf8 |-> TRUE, text |-> s]
\* bytes.decode('utf8') raises UnicodeDecodeError (a ValueError) on a frame
\* whose utf8 is FALSE.
decode(f)  == f.text
encode(s)  == Utf8(s)

----------------------------------------------------------------------------
(* The documents with a path prefix.                                       *)

CommandPrefix == <<ns.COMMAND, ns.ARGUMENTS>>
ReplyPrefix   == <<ns.COMMAND_REPLY, ns.RESULT>>

\* The path a document with class prefix pfx uses for a call with the given
\* prefix flag.
\* Not the code: the path prefix of the class is never added.
prefix_ignored(pfx, path, prefix) == path

\* "if prefix and self.path_prefix: path = self.path_prefix + path"
Prefixed(pfx, path, prefix) == IF prefix THEN pfx \o path ELSE path

IsPrefixOf(q, p) == Len(q) <= Len(p) /\ SubSeq(p, 1, Len(q)) = q

\* ErrorPayload.new, with ErrorPayload.DEFAULT_STATUS
ErrorPayload_new(message) ==
    Map1(ns.ERROR, Map3(ns.MESSAGE, Str(message), ns.CODE, Num(0),
                        ns.STATUS, Str("500 Internal Server Error")))

\* CommandPayload.get_name / get_transport_data
Command_get_name(command) == Payload_get(command, <<ns.COMMAND, ns.NAME>>, Str(""))
Command_get_transport_data(command) ==
    Payload_get(command, CommandPrefix \o <<ns.TRANSPORT>>, EmptyMap)
\* Whether the command holds an object for the argument (get returns it, not
\* the default).
Command_has(command, name) == Payload_exists(command, CommandPrefix \o <<name>>)

\* ReplyPayload.get_transport: the data when it is truthy, else None.
Reply_transport_data(reply) == Payload_get(reply, ReplyPrefix \o <<ns.TRANSPORT>>, None)
Reply_get_transport(reply) ==
    IF Truthy(Reply_transport_data(reply)) THEN Reply_transport_data(reply) ELSE None

\* Not the code: a for_response that leaves the call in the reply.
for_response_keeps_call(reply) == reply

\* ReplyPayload.for_request / for_response
Reply_for_request(reply)  == Payload_delete(reply, ReplyPrefix \o <<ns.RESPONSE>>).doc
Reply_for_response(reply) == Payload_delete(reply, ReplyPrefix \o <<ns.CALL>>).doc

\* ReplyPayload.new_request_reply (HTTP_VERSION is "1.1", HTTP_STATUS_OK "200 OK")
Reply_new_request_reply(command) ==
    LET call == Payload_get(command, CommandPrefix \o <<ns.CALL>>, EmptyMap)
        callReply == MapV(MapPut(MapPut(MapPut(MapPut(<<>>,
                        ns.SERVICE, Payload_get(call, <<ns.SERVICE>>, Str(""))),
                        ns.VERSION, Payload_get(call, <<ns.VERSION>>, Str(""))),
                        ns_ACTION, Payload_get(call, <<ns_ACTION>>, Str(""))),
                        ns.PARAMS, Payload_get(call, <<ns.PARAMS>>, EmptyList)))
        response == MapV(MapPut(MapPut(MapPut(MapPut(<<>>,
                        ns.VERSION, Str("1.1")),
                        ns.STATUS, Str("200 OK")),
                        ns.HEADERS, Map1("Content-Type", ListV(<<Str("text/plain")>>))),
                        ns.BODY, Str("")))
    IN  Map1(ns.COMMAND_REPLY,
             Map2(ns.NAME, Command_get_name(command),
                  ns.RESULT, Map3(ns.ATTRIBUTES,
                                  Payload_get(command, CommandPrefix \o <<ns.ATTRIBUTES>>, EmptyMap),
                                  ns.CALL, callReply,
                                  ns.RESPONSE, response)))

\* ReplyPayload.new_response_reply
Reply_new_response_reply(command) ==
    Map1(ns.COMMAND_REPLY,
         Map2(ns.NAME, Command_get_name(command),
              ns.RESULT, Map2(ns.ATTRIBUTES,
                              Payload_get(command, CommandPrefix \o <<ns.ATTRIBUTES>>, EmptyMap),
                              ns.RESPONSE,
                              Payload_get(command, CommandPrefix \o <<ns.RESPONSE>>, EmptyMap))))

\* ReplyPayload.new_action_reply: the transport of the reply is the object
\* command.get_transport_data() returns, not a copy of it.
Reply_new_action_reply(command) ==
    Map1(ns.COMMAND_REPLY,
         Map2(ns.NAME, Command_get_name(command),
              ns.RESULT, Map1(ns.TRANSPORT, Command_get_transport_data(command))))

\* ReplyPayload.set_response
Reply_set_response(reply, status) ==
    Payload_set(reply, ReplyPrefix \o <<ns.RESPONSE>>,
        MapV(MapPut(MapPut(MapPut(MapPut(<<>>,
             ns.VERSION, Str("1.1")),
             ns.STATUS, Str(status)),
             ns.HEADERS, EmptyMap),
             ns.BODY, Str("")))).doc

----------------------------------------------------------------------------
(* A transport bound to a reply (TransportPayload.set_reply).              *)
(*                                                                         *)
(* A binding is the record                                                 *)
(*   transport  the TransportPayload's own tree,                           *)
(*   reply      the ReplyPayload document,                                 *)
(*   command    the CommandPayload document of the request,                *)
(*   aliased    the argument (ns.TRANSPORT, ns.RESPONSE) whose value in the *)
(*              reply IS the object held in the command, "" when none:     *)
(*              new_action_reply and new_response_reply store the object   *)
(*              itself, and a write below it shows in both documents,      *)
(*   shared     pairs [t |-> path in the transport, r |-> path in the      *)
(*              reply] of one container object (a dict or list passed to   *)
(*              set) held by both documents: a change inside the object is *)
(*              seen at both places.                                       *)

TransportInReply(prefix) == Prefixed(ReplyPrefix, <<ns.TRANSPORT>>, prefix)

\* The command after the reply became reply2: the aliased argument is the
\* reply's object.
AliasedCommand(command, aliased, reply2) ==
    IF aliased # ""
    THEN Payload_set(command, CommandPrefix \o <<aliased>>,
             Payload_get(reply2, ReplyPrefix \o <<aliased>>, None)).doc
    ELSE command

\* One mutating call of Payload on a document.
Apply(doc, kind, path, arg) ==
    CASE kind = "set"    -> Payload_set(doc, path, arg)
      [] kind = "extend" -> Payload_extend(doc, path, arg)
      [] kind = "delete" -> Payload_delete(doc, path)

\* The path of the object a successful call changes in place: the deepest
\* container that exists on the way (the list itself for an extend).
Mutated(doc, kind, path) ==
    LET way == IF kind = "extend" THEN path ELSE SubSeq(path, 1, Len(path) - 1)
        k == CHOOSE k \in 0..Len(way) :
                 /\ Payload_exists(doc, SubSeq(way, 1, k))
                 /\ k < Len(way) => ~Payload_exists(doc, SubSeq(way, 1, k + 1))
    IN  SubSeq(way, 1, k)

\* The shared objects still held at both places after the entry at path of
\* the transport (side "t") or of the reply (side "r") was replaced.
Kept(shared, kind, side, path) ==
    IF kind = "extend" THEN shared
    ELSE {s \in shared : ~IsPrefixOf(path, IF side = "t" THEN s.t ELSE s.r)}

\* The reply seen through the shared objects, as they now are in the transport.
RECURSIVE Resync(_, _, _)
Resync(reply, transport, shared) ==
    IF shared = {} THEN reply
    ELSE LET s == CHOOSE x \in shared : \A y \in shared : Len(x.r) <= Len(y.r)
         IN  Resync(Payload_set(reply, s.r, Payload_get(transport, s.t, None)).doc,
                    transport, shared \ {s})

\* A call on the transport's own tree (super().set / extend / delete).
OnTransport(b, kind, path, arg) ==
    LET w == Apply(b.transport, kind, path, arg)
        kept == Kept(b.shared, kind, "t", path)
        r == Resync(b.reply, w.doc, kept)
    IN  IF ~w.ok \/ path = <<>> THEN [ok |-> w.ok, b |-> b]
        ELSE [ok |-> TRUE,
              b |-> [b EXCEPT !.transport = w.doc, !.reply = r, !.shared = kept,
                              !.command = AliasedCommand(b.command, b.aliased, r)]]

\* A call on the reply, at a full path.  A change inside a shared object is
\* a change of the transport's tree too.
OnReply(b, kind, path, arg) ==
    LET w == Apply(b.reply, kind, path, arg)
        m == Mutated(b.reply, kind, path)
        hits == {s \in b.shared : IsPrefixOf(s.r, m)}
        s == CHOOSE x \in hits : TRUE
        tpath == s.t \o SubSeq(path, Len(s.r) + 1, Len(path))
        t2 == Apply(b.transport, kind, tpath, arg).doc
        kept == IF hits = {} THEN Kept(b.shared, kind, "r", path)
                ELSE Kept(b.shared, kind, "t", tpath)
        r == IF hits = {} THEN w.doc ELSE Resync(b.reply, t2, kept)
        al == IF kind \in {"set", "delete"} /\ path = ReplyPrefix \o <<b.aliased>>
              THEN "" ELSE b.aliased
    IN  IF ~w.ok THEN [ok |-> FALSE, b |-> b]
        ELSE [ok |-> TRUE,
              b |-> [b EXCEPT !.transport = IF hits = {} THEN @ ELSE t2,
                              !.reply = r, !.shared = kept, !.aliased = al,
                              !.command = AliasedCommand(b.command, al, r)]]

\* A write of the reply alone (ReplyPayload.set(path, value)).
Reply_set(b, path, value) == OnReply(b, "set", ReplyPrefix \o path, value).b

\* TransportPayload.set: super().set on the transport, then the same set on
\* the reply under [ns.TRANSPORT] + path, with the caller's prefix flag.  A
\* dict or list set this way is one object held by both.
Transport_set(b, path, value, prefix) ==
    LET t == OnTransport(b, "set", path, value)
        rpath == TransportInReply(prefix) \o path
        r == OnReply(t.b, "set", rpath, value)
        new == IF t.ok /\ r.ok /\ path # <<>> /\ (IsMap(value) \/ IsList(value))
               THEN {[t |-> path, r |-> rpath]} ELSE {}
    IN  [ok |-> t.ok, b |-> [r.b EXCEPT !.shared = @ \cup new]]

\* TransportPayload.extend
Transport_extend(b, path, values, prefix) ==
    LET t == OnTransport(b, "extend", path, values)
    IN  [ok |-> t.ok,
         b |-> OnReply(t.b, "extend", TransportInReply(prefix) \o path, values).b]

\* TransportPayload.append
Transport_append(b, path, value, prefix) == Transport_extend(b, path, <<value>>, prefix)

\* TransportPayload.delete: "*path, name = path" raises ValueError on an
\* empty path, before anything is changed.
Transport_delete(b, path, prefix) ==
    IF path = <<>> THEN [ok |-> FALSE, b |-> b]
    ELSE LET t == OnTransport(b, "delete", path, None)
         IN  [ok |-> t.ok,
              b |-> OnReply(t.b, "delete", TransportInReply(prefix) \o path, None).b]

\* TransportPayload.set_return
Transport_set_return(b, value) == Reply_set(b, <<ns.RETURN>>, value)

\* TransportPayload.get_public_gateway_address
Transport_get_public_gateway_address(t) ==
    Payload_get(t, <<ns.META, ns.GATEWAY>>, ListV(<<Str(""), Str("")>>)).l[2].s

\* TransportPayload.add_data
Transport_add_data(b, name, version, action, data) ==
    Transport_append(b, <<ns.DATA, Transport_get_public_gateway_address(b.transport),
                          name, version, action>>, data, TRUE)

\* A faulty add_error that records the error twice.
add_error_twice(b, service, version, message, code, status) ==
    LET entry == Map3(ns.MESSAGE, Str(message), ns.CODE, Num(code), ns.STATUS, Str(status))
        path == <<ns.ERRORS, Transport_get_public_gateway_address(b.transport),
                  service, version>>
    IN  Transport_append(Transport_append(b, path, entry, TRUE).b, path, entry, TRUE)

\* TransportPayload.add_error
Transport_add_error(b, service, version, message, code, status) ==
    Transport_append(b, <<ns.ERRORS, Transport_get_public_gateway_address(b.transport),
                          service, version>>,
                     Map3(ns.MESSAGE, Str(message), ns.CODE, Num(code),
                          ns.STATUS, Str(status)), TRUE)

\* A faulty merge_dictionary that adds nothing to dest.
merge_keep_dest(src, dest) == [ok |-> TRUE, doc |-> dest]

\* A faulty merge_dictionary that puts the entries of src before those of dest.
RECURSIVE merge_source_first(_, _)
merge_source_first(src, dest) ==
    LET one(k) ==
            IF k \notin DOMAIN dest.m THEN src.m[k]
            ELSE IF k \notin DOMAIN src.m THEN dest.m[k]
            ELSE IF IsMap(src.m[k]) /\ IsMap(dest.m[k])
                 THEN merge_source_first(src.m[k], dest.m[k]).doc
                 ELSE IF IsList(src.m[k]) /\ IsList(dest.m[k])
                      THEN ListV(src.m[k].l \o dest.m[k].l)
                      ELSE dest.m[k]
    IN  [ok |-> TRUE, doc |-> MapV([k \in DOMAIN src.m \cup DOMAIN dest.m |-> one(k)])]

\* merge_dictionary(src, dest) of two dicts.  ok is FALSE where the code
\* raises: a dict of src meets a value of dest that cannot be assigned into.
\* The code stops at the key that raises, in the insertion order of src; doc
\* is then the state with every other key merged (the raising key met last).
RECURSIVE merge_dictionary(_, _)
merge_dictionary(src, dest) ==
    LET both == DOMAIN src.m \cap DOMAIN dest.m
        sub(k) == merge_dictionary(src.m[k], dest.m[k])
        bad(k) == /\ IsMap(src.m[k])
                  /\ IF IsMap(dest.m[k]) THEN ~sub(k).ok ELSE DOMAIN src.m[k].m # {}
        one(k) ==
            IF k \notin DOMAIN dest.m THEN src.m[k]
            ELSE IF k \notin DOMAIN src.m THEN dest.m[k]
            ELSE IF IsMap(src.m[k])
                 THEN IF IsMap(dest.m[k]) THEN sub(k).doc ELSE dest.m[k]
                 ELSE IF IsList(src.m[k]) /\ IsList(dest.m[k])
                      THEN ListV(dest.m[k].l \o src.m[k].l)
                      ELSE dest.m[k]
    IN  [ok |-> \A k \in both : ~bad(k),
         doc |-> MapV([k \in DOMAIN src.m \cup DOMAIN dest.m |-> one(k)])]

\* A faulty list of mergeable paths that holds all of meta.
paths_with_meta ==
    << <<ns.DATA>>, <<ns.RELATIONS>>, <<ns.LINKS>>, <<ns.CALLS>>, <<ns.TRANSACTIONS>>,
       <<ns.ERRORS>>, <<ns.BODY>>, <<ns.FILES>>, <<ns.META>> >>

MERGEABLE_PATHS ==
    << <<ns.DATA>>, <<ns.RELATIONS>>, <<ns.LINKS>>, <<ns.CALLS>>, <<ns.TRANSACTIONS>>,
       <<ns.ERRORS>>, <<ns.BODY>>, <<ns.FILES>>, <<ns.META, ns.FALLBACKS>>,
       <<ns.META, ns.PROPERTIES>> >>

\* The loop of merge_runtime_call_transport over the paths from the i-th on:
\* self is the transport merged into, other the transport merged from.
RECURSIVE MergePaths(_, _, _)
MergePaths(self, other, i) ==
    IF i > Len(MERGEABLE_PATHS) THEN [ok |-> TRUE, doc |-> self]
    ELSE LET path == MERGEABLE_PATHS[i]
             src == Payload_get(other, path, None)
             cur == Payload_get(self, path, None)
             made == IF cur = None THEN Payload_set(self, path, EmptyMap)
                     ELSE [ok |-> TRUE, doc |-> self]
             dest == IF cur = None THEN EmptyMap ELSE cur
         IN  IF src = None THEN MergePaths(self, other, i + 1)
             ELSE IF ~IsMap(src) THEN [ok |-> FALSE, doc |-> made.doc]
             ELSE IF ~IsMap(dest)
                  THEN IF DOMAIN src.m = {} THEN MergePaths(self, other, i + 1)
                       ELSE [ok |-> FALSE, doc |-> self]
                  ELSE LET m == merge_dictionary(src, dest)
                           next == IF made.ok
                                   THEN Payload_set(made.doc, path, m.doc).doc
                                   ELSE made.doc
                       IN  IF m.ok THEN MergePaths(next, other, i + 1)
                           ELSE [ok |-> FALSE, doc |-> next]

\* A faulty merge that leaves the reply as the mirrored writes made it.
merge_without_reply(b, other) ==
    LET m == MergePaths(b.transport, other, 1)
        r == Resync(b.reply, m.doc, b.shared)
    IN  [ok |-> m.ok,
         b |-> [b EXCEPT !.transport = m.doc, !.reply = r,
                         !.command = AliasedCommand(b.command, b.aliased, r)]]

\* TransportPayload.merge_runtime_call_transport: the merge, then the reply's
\* transport is replaced by a deep copy of the merged transport.
Transport_merge_runtime_call_transport(b, other) ==
    LET m == MergePaths(b.transport, other, 1)
        r == Resync(b.reply, m.doc, b.shared)
        b1 == [b EXCEPT !.transport = m.doc, !.reply = r,
                        !.command = AliasedCommand(b.command, b.aliased, r)]
    IN  [ok |-> m.ok,
         b |-> IF m.ok THEN Reply_set(b1, <<ns.TRANSPORT>>, m.doc) ELSE b1]

\* A faulty type check that lets every argument through.
any_argument(arg) == TRUE

\* isinstance(transport, TransportPayload), for an argument [cls, doc].
IsTransportPayload(arg) == arg.cls = "TransportPayload"

\* TransportPayload.merge_runtime_call_transport called with any argument:
\* raised is "" when it returns True, "TypeError" for an argument of another
\* class, "MergeError" when merge_dictionary raises (AttributeError or
\* TypeError) on the way.
Transport_merge(b, arg) ==
    IF ~IsTransportPayload(arg) THEN [raised |-> "TypeError", b |-> b]
    ELSE LET r == Transport_merge_runtime_call_transport(b, arg.doc)
         IN  [raised |-> IF r.ok THEN "" ELSE "MergeError", b |-> r.b]

\* TransportPayload.add_call: other is the transport the call returned, or
\* None.
Transport_add_call(b, service, version, call, other) ==
    IF other # None
    THEN Transport_merge_runtime_call_transport(
             b, Payload_append(other, <<ns.CALLS, service, version>>, call).doc)
    ELSE Transport_append(b, <<ns.CALLS, service, version>>, call, TRUE)

\* TransportPayload.add_defer_call (no params, no files): the call has no
\* duration.
Transport_add_defer_call(b, service, version, action, callee_service, callee_version, callee_action) ==
    Transport_append(b, <<ns.CALLS, service, version>>,
                     MapV(MapPut(MapPut(MapPut(MapPut(<<>>,
                          ns.NAME, Str(callee_service)),
                          ns.VERSION, Str(callee_version)),
                          ns_ACTION, Str(callee_action)),
                          ns.CALLER, Str(action))), TRUE)

\* Not the code: a has_calls that looks for a call with a duration.
has_calls_made(t, service, version) ==
    LET calls == Payload_get(t, <<ns.CALLS, service, version>>, EmptyList)
    IN  /\ IsList(calls)
        /\ \E i \in 1..Len(calls.l) :
               Payload_get(calls.l[i], <<ns.DURATION>>, None) # None

\* A faulty has_calls that counts the calls already made.
has_any_calls(t, service, version) ==
    Truthy(Payload_get(t, <<ns.CALLS, service, version>>, EmptyList))

\* TransportPayload.has_calls: a call without a duration is still to be made.
Transport_has_calls(t, service, version) ==
    LET calls == Payload_get(t, <<ns.CALLS, service, version>>, EmptyList)
    IN  /\ IsList(calls)
        /\ \E i \in 1..Len(calls.l) :
               Payload_get(calls.l[i], <<ns.DURATION>>, None) = None

\* TransportPayload.has_files / has_transactions / has_download
Transport_has_files(t)        == Payload_exists(t, <<ns.FILES>>)
Transport_has_transactions(t) == Payload_exists(t, <<ns.TRANSACTIONS>>)
Transport_has_download(t)     == Payload_exists(t, <<ns.BODY>>)

----------------------------------------------------------------------------
(* Schemas, and the Action component.                                      *)

\* dict(value), as Payload(value) builds a document: kind is "ok" or the
\* exception raised.  A str iterates over one-character items, a list over
\* its elements.
DictOf(v) ==
    IF v.t = "map" THEN [kind |-> "ok", doc |-> v]
    ELSE IF (v.t = "list" /\ v.l = <<>>) \/ (v.t = "str" /\ v.s = "")
         THEN [kind |-> "ok", doc |-> EmptyMap]
    ELSE IF v.t = "str" THEN [kind |-> "ValueError", doc |-> None]
    ELSE IF v.t = "list" /\ Head(v.l).t \in {"str", "list", "map"}
         THEN [kind |-> "ValueError", doc |-> None]
    ELSE [kind |-> "TypeError", doc |-> None]

\* MappingPayload.get_service_schema_payload, for a version that is listed:
\* None stands for LookupError.
Mapping_get_service_schema_payload(mapping, name, version) ==
    IF IsMap(mapping) /\ name \in DOMAIN mapping.m
       /\ IsMap(mapping.m[name]) /\ version \in DOMAIN mapping.m[name].m
    THEN mapping.m[name].m[version] ELSE None

\* ServiceSchemaPayload.get_action_schema_payload: None for LookupError.
Service_get_action_schema_payload(schema, name) ==
    LET actions == Payload_get(schema, <<ns_ACTIONS>>, EmptyMap)
    IN  IF IsMap(actions) /\ name \in DOMAIN actions.m THEN actions.m[name] ELSE None

\* The action schema of an action of a service, None when either lookup fails.
ActionSchemaOf(mapping, name, version, action) ==
    LET schema == Mapping_get_service_schema_payload(mapping, name, version)
    IN  IF schema = None THEN None ELSE Service_get_action_schema_payload(schema, action)

\* ActionSchema.has_call for a full (name, version, action) triple; versions
\* match when equal or '*'.
ActionSchema_has_call(aschema, name, version, action) ==
    LET calls == Payload_get(aschema, <<ns.CALLS>>, EmptyList)
    IN  \E i \in 1..Len(calls.l) :
            /\ calls.l[i].l[1] \in {Str("*"), Str(name)}
            /\ calls.l[i].l[2] \in {Str("*"), Str(version)}
            /\ calls.l[i].l[3] \in {Str("*"), Str(action)}

\* ActionSchema.has_defer_call for a full (name, version, action) triple.
ActionSchema_has_defer_call(aschema, name, version, action) ==
    LET calls == Payload_get(aschema, <<ns.DEFERRED_CALLS>>, EmptyList)
    IN  \E i \in 1..Len(calls.l) :
            /\ calls.l[i].l[1] \in {Str("*"), Str(name)}
            /\ calls.l[i].l[2] \in {Str("*"), Str(version)}
            /\ calls.l[i].l[3] \in {Str("*"), Str(action)}

\* ActionSchema.has_return
ActionSchema_has_return(aschema) == Payload_exists(aschema, <<ns.RETURN>>)

\* DEFAULT_RETURN_VALUES[return_type]; Obj stands for a KeyError.
DEFAULT_RETURN_VALUES(type) ==
    CASE type = Str("null")    -> None
      [] type = Str("integer") -> Num(0)
      [] type = Str("string")  -> Str("")
      [] type = Str("binary")  -> Str("")
      [] type = Str("array")   -> EmptyList
      [] type = Str("object")  -> EmptyMap
      [] OTHER                 -> Obj

\* Action.__init__: the transport is a deep copy of the command's transport,
\* bound to the reply of the request; with schemas, the default return value
\* of the action is written to the reply (any exception on the way is
\* swallowed).
Action_init(schemas, command, reply, aliased, name, version, action) ==
    LET b0 == [transport |-> Command_get_transport_data(command), reply |-> reply,
               command |-> command, aliased |-> aliased, shared |-> {}]
        aschema == ActionSchemaOf(schemas, name, version, action)
        type == Payload_get(aschema, <<ns.RETURN, ns.TYPE>>, None)
    IN  IF /\ Truthy(schemas)
           /\ aschema # None
           /\ ActionSchema_has_return(aschema)
           /\ Payload_exists(aschema, <<ns.RETURN, ns.TYPE>>)
           /\ DEFAULT_RETURN_VALUES(type) # Obj
        THEN Transport_set_return(b0, DEFAULT_RETURN_VALUES(type))
        ELSE b0

\* Action.set_entity
Action_set_entity(b, name, version, action, entity) ==
    Transport_add_data(b, name, version, action, entity).b

\* Action.set_property: written to the reply only.
Action_set_property(b, name, value) ==
    LET r == Payload_set(b.reply, ReplyPrefix \o <<ns.TRANSPORT, ns.META, ns.PROPERTIES, name>>,
                         Str(value))
    IN  [b EXCEPT !.reply = r.doc,
                  !.command = AliasedCommand(b.command, b.aliased, r.doc)]

\* Action.error
Action_error(b, name, version, message, code, status) ==
    Transport_add_error(b, name, version, message, code, status).b

\* The transport Action.call / AsyncAction.call hands to the client for the
\* command of the run-time call: TransportPayload(command.get_transport_data()).
CallTransport(command) == Command_get_transport_data(command)

----------------------------------------------------------------------------
(* The run-time call client.                                               *)

\* A faulty CallError that drops the prefix of the message.
bare_message(message) ==
    [raised |-> "CallError", message |-> message, value |-> None, transport |-> None]

\* CallError(message): the message the exception is built with.
CallError(message) ==
    [raised |-> "CallError", message |-> "Run-time call failed: " \o message,
     value |-> None, transport |-> None]

\* AsyncClient.call after the socket is released: the reply stream is parsed.
\* raised is "" when the call returns (value, transport).
AsyncClient_parse(stream) ==
    IF ~CanUnpack(stream) THEN CallError("The response format is invalid")
    ELSE LET payload == unpack(stream)
             message == Payload_get(payload, <<ns.ERROR, ns.MESSAGE>>, Str("Unknown error"))
             data == Reply_get_transport(payload)
         IN  IF ~IsMap(payload) THEN CallError("The payload data is not valid")
             ELSE IF ns.ERROR \in DOMAIN payload.m THEN CallError(message.s)
             ELSE IF data # None /\ DictOf(data).kind # "ok"
                  THEN [raised |-> DictOf(data).kind, message |-> "", value |-> None,
                        transport |-> None]
                  ELSE [raised |-> "", message |-> "",
                        value |-> Payload_get(payload, ReplyPrefix \o <<ns.RETURN>>, None),
                        transport |-> IF data = None THEN None ELSE DictOf(data).doc]

\* AsyncClient.call: failAt is the socket operation that raises ("none" when
\* each works, "timeout" when poll returns no event), stream the bytes
\* received.  The result tells how the call ended and what it did with the
\* socket: sockets created, calls of connect and of send_multipart, and
\* whether the socket was disconnected and closed when the call ended.
\* socket.disconnect raises ZMQError for an endpoint that is not connected,
\* which skips socket.close and takes the place of the exception in flight.
AsyncClient_call(transport, failAt, stream) ==
    IF transport = None
    THEN [raised |-> "ValueError",
          message |-> "Transport is required to make run-time calls",
          value |-> None, transport |-> None, failAt |-> failAt, stream |-> stream,
          sockets |-> 0, connects |-> 0, sends |-> 0, disconnected |-> FALSE,
          closed |-> FALSE]
    ELSE LET connected == failAt # "connect"
             tried == IF failAt = "timeout" THEN CallError("Timeout")
                      ELSE IF failAt # "none" THEN CallError("Failed to make the request")
                      ELSE AsyncClient_parse(stream)
             ended == IF connected THEN tried
                      ELSE [raised |-> "ZMQError", message |-> "", value |-> None,
                            transport |-> None]
         IN  [raised |-> ended.raised, message |-> ended.message, value |-> ended.value,
              transport |-> ended.transport, failAt |-> failAt, stream |-> stream,
              sockets |-> 1, connects |-> 1,
              sends |-> IF connected THEN 1 ELSE 0,
              disconnected |-> connected, closed |-> connected]

----------------------------------------------------------------------------
(* The server.                                                             *)

EMPTY_META   == <<0>>
SERVICE_CALL == <<1>>
FILES        == <<2>>
TRANSACTIONS == <<3>>
DOWNLOAD     == <<4>>

\* A faulty create_error_stream that flags the reply as holding calls.
error_stream_with_flags(rid, message) ==
    <<encode(rid), SERVICE_CALL, pack(ErrorPayload_new(message))>>

\* Not the code: the generic error addressed to the empty id.
error_stream_without_id(rid, message) ==
    <<encode(""), EMPTY_META, pack(ErrorPayload_new(message))>>

\* create_error_stream
create_error_stream(rid, message) ==
    <<encode(rid), EMPTY_META, pack(ErrorPayload_new(message))>>

\* Server.__update_schemas: raised names the exception that leaves the
\* method, "" when it returns.  When unpack fails the error is logged and
\* the local "schemas" is read unbound.
\* Not the code: the schema bytes of a request are dropped.
schemas_not_replaced(current, bytes) == [raised |-> "", schemas |-> current]

update_schemas(current, bytes) ==
    IF ~CanUnpack(bytes) THEN [raised |-> "UnboundLocalError", schemas |-> current]
    ELSE LET d == DictOf(unpack(bytes))
         IN  IF d.kind = "ok" THEN [raised |-> "", schemas |-> d.doc]
             ELSE IF d.kind = "TypeError" THEN [raised |-> "", schemas |-> current]
             ELSE [raised |-> d.kind, schemas |-> current]

\* The flags of an action reply in Server.__process_response.
\* Not the code: the flags joined by bitwise OR into one byte.
flags_or(t, name, version) ==
    LET calls == Transport_has_calls(t, name, version)
        b0 == IF calls \/ Transport_has_transactions(t) THEN 1 ELSE 0
        b1 == IF Transport_has_files(t) \/ Transport_has_transactions(t) THEN 2 ELSE 0
        b2 == IF Transport_has_download(t) THEN 4 ELSE 0
    IN  <<b0 + b1 + b2>>

Flags(t, name, version) ==
    LET f == (IF Transport_has_calls(t, name, version) THEN SERVICE_CALL ELSE <<>>)
             \o (IF Transport_has_files(t) THEN FILES ELSE <<>>)
             \o (IF Transport_has_transactions(t) THEN TRANSACTIONS ELSE <<>>)
             \o (IF Transport_has_download(t) THEN DOWNLOAD ELSE <<>>)
    IN  IF f = <<>> THEN EMPTY_META ELSE f

\* Server.__process_response: result is the class of the value the callback
\* returned.  ok is FALSE when pack raises; reply is the reply document
\* afterwards (for_request and for_response delete from it).
process_response(result, rid, reply, name, version) ==
    LET payload == CASE result = "Request"  -> Reply_for_request(reply)
                     [] result = "Response" -> Reply_for_response(reply)
                     [] result = "Action"   -> reply
                     [] OTHER -> ErrorPayload_new("Invalid value returned from callback")
        t == Reply_get_transport(reply)
        flags == IF result = "Action" /\ t # None THEN Flags(t, name, version)
                 ELSE EMPTY_META
    IN  [ok |-> Packable(payload),
         stream |-> <<encode(rid), flags, pack(payload)>>,
         reply |-> IF result \in {"Request", "Response"} THEN payload ELSE reply]

\* A faulty str(exc) that gives the class of the exception.
class_name(exc) == exc.cls

\* str(exc)
str(exc) == exc.message

\* Server.__handle_callback_error: the reply document afterwards, and the
\* class of the component returned.
handle_callback_error(exc, api, schemas, command, reply, aliased, name, version, action) ==
    IF api = "Action"
    THEN [result |-> "Action",
          b |-> Action_error(Action_init(schemas, command, reply, aliased,
                                         name, version, action),
                             name, version, str(exc), 0, "500 Internal Server Error")]
    ELSE LET status == ToString(500) \o " " \o "Internal Server Error"
             r1 == Payload_set(reply, ReplyPrefix \o <<ns.RESPONSE, ns.STATUS>>, Str(status)).doc
             r2 == Payload_set(r1, ReplyPrefix \o <<ns.RESPONSE, ns.BODY>>, Str(str(exc))).doc
         IN  [result |-> "Response",
              b |-> [transport |-> None, reply |-> r2, aliased |-> aliased, shared |-> {},
                     command |-> AliasedCommand(command, aliased, r2)]]

\* State.get_component_title
get_component_title(name, version) == "\"" \o name \o "\" (" \o version \o ")"

----------------------------------------------------------------------------
(* Bounds and the inputs of the model.                                     *)

\* Messages the server receives before the model stops feeding it.
MaxRequests == 2
\* API calls a callback makes on its component before it ends.
MaxOps == 2
\* Mutating calls made on the bound transport of SpecTransport.
MaxTransportOps == 3
MaxMerges == 2
MaxCalls == 2

\* The CLI values of the component: --name, --version, --timeout (default).
values_name    == "foo"
values_version == "1.0"
values_timeout == 30000

\* The callbacks registered by the component.
Callbacks(comp) == IF comp = "service" THEN {"act"} ELSE {"request", "response"}

\* The service, version and action the callbacks call at run time.
Remote == [service |-> "bar", version |-> "1.0", action |-> "list"]

\* The n-th request id the framework uses.
RequestId(n) == "r" \o ToString(n)

\* A schema mapping: action "act" of the service may call Remote, now or
\* deferred, and returns a string.
SchemaMapping ==
    Map1(values_name, Map1(values_version, Map1(ns_ACTIONS, Map1("act",
        Map3(ns.CALLS, ListV(<<ListV(<<Str(Remote.service), Str(Remote.version),
                                       Str(Remote.action)>>)>>),
             ns.DEFERRED_CALLS, ListV(<<ListV(<<Str(Remote.service), Str(Remote.version),
                                                Str(Remote.action)>>)>>),
             ns.RETURN, Map1(ns.TYPE, Str("string")))))))

\* Commands: an action command with a transport, one without, and a
\* middleware command.
CommandWithTransport ==
    Map1(ns.COMMAND, Map2(ns.NAME, Str("act"),
         ns.ARGUMENTS, Map1(ns.TRANSPORT,
             Map1(ns.META, Map1(ns.GATEWAY, ListV(<<Str("10.0.0.1"), Str("gw.example")>>))))))
CommandWithoutTransport ==
    Map1(ns.COMMAND, Map2(ns.NAME, Str("act"), ns.ARGUMENTS, EmptyMap))
MiddlewareCommand ==
    Map1(ns.COMMAND, Map2(ns.NAME, Str("request"),
         ns.ARGUMENTS, Map2(ns.CALL, Map3(ns.SERVICE, Str("foo"), ns.VERSION, Str("1.0"),
                                          ns_ACTION, Str("act")),
                            ns.RESPONSE, Map2(ns.STATUS, Str("200 OK"), ns.BODY, Str("hi")))))

\* The multipart messages that can arrive as the n-th: four frames (request
\* id, action name, schemas, command), or a message with no frame, with a
\* frame missing or with a frame too many, or with an id that is not UTF-8.
Inbound(comp, n) ==
    LET \* An action command whose transport holds one more section: a call of this
        \* service that is still to be made under calls, an empty dict otherwise.
        CommandWithSection(section) ==
            Map1(ns.COMMAND, Map2(ns.NAME, Str("act"),
                 ns.ARGUMENTS, Map1(ns.TRANSPORT,
                     Map2(ns.META, Map1(ns.GATEWAY, ListV(<<Str("10.0.0.1"), Str("gw.example")>>)),
                          section, IF section = ns.CALLS
                                   THEN Map1(values_name, Map1(values_version, ListV(<<EmptyMap>>)))
                                   ELSE EmptyMap))))
        ActionFrames == {Utf8(a) : a \in Callbacks(comp) \cup {"nope"}}
        SchemaFrames == {EmptyBytes, BadBytes, Packed(SchemaMapping), Packed(None),
                         Packed(Str("ab")),
                         Packed(Map1("bar", Map1("1.0", Map1(ns_ACTIONS, EmptyMap))))}
        CommandFrames ==
            IF comp = "service"
            THEN {Packed(CommandWithTransport), Packed(CommandWithoutTransport),
                  Packed(EmptyList), BadBytes}
                 \cup {Packed(CommandWithSection(section)) :
                           section \in {ns.CALLS, ns.FILES, ns.TRANSACTIONS, ns.BODY}}
            ELSE {Packed(MiddlewareCommand), BadBytes}
    IN  {<<Utf8(RequestId(n)), a, sc, c>> :
            a \in ActionFrames, sc \in SchemaFrames, c \in CommandFrames}
        \cup {<<>>,
              <<Utf8(RequestId(n)), Utf8("act"), EmptyBytes>>,
              <<Utf8(RequestId(n)), Utf8("act"), EmptyBytes, Packed(EmptyMap), EmptyBytes>>,
              <<[utf8 |-> FALSE, text |-> ""], Utf8("act"), EmptyBytes, BadBytes>>}

\* What a callback raises.
Exceptions == {[cls |-> "KusanagiError", message |-> "denied"],
               [cls |-> "Exception", message |-> "boom"]}

\* Default timeout of a run-time call, in milliseconds.
EXECUTION_TIMEOUT == 30000

----------------------------------------------------------------------------
(* State.                                                                  *)

VARIABLES
    component,      \* "service" or "middleware": what the server runs
    asyncCallback,  \* whether the callbacks are coroutine functions
    pc,             \* where Server.listen is: "poll", "handle", "callback",
                    \* "send", or "closed" once the loop has ended
    state,          \* the State of the request in hand, None when invalid
    schemas,        \* Server.__schemas
    command,        \* state.context['command']
    reply,          \* state.context['reply']
    transport,      \* the Action's TransportPayload
    replyAliased,   \* the argument of the command the reply holds as one object
    result,         \* the class of the component the callback would return
    nOps,           \* API calls made by the running callback
    callTransport,  \* the transport of the last run-time call command sent
    stream,         \* the multipart reply to send
    nRecv,          \* messages received
    nSent,          \* replies sent
    hookCalls,      \* the exceptions on_error was called with, this request
    invoked,        \* whether a callback was invoked for this request
    outcome,        \* how the handling of this request ended
    zombie,         \* ids of timed-out requests whose callback thread still runs
    exitError,      \* the exception that ended the loop
    tb,             \* SpecTransport: a transport bound to a reply
    tOps,           \* SpecTransport: mutating calls made
    mArg,           \* SpecMerge: the argument of the last merge, None before
    mRaised,        \* SpecMerge: what the last merge raised, "" when it returned
    mBefore,        \* SpecMerge: the binding before the last merge
    clientCalls,    \* SpecCall: what each call of the call client did, in order
    mappings,       \* the MappingPayload objects made so far, in order; the last
                    \* one is the object Server.__schemas refers to
    contexts,       \* state.context['schemas'] of each request whose context is
                    \* still held: the request id and the object referred to
    pdoc,           \* SpecPayload: a Payload with a path prefix, the reference
                    \* map kept beside it, and the last call made on it
    mp,             \* SpecMsgpack: a value, the bytes it is packed to and the
                    \* value unpacked from the bytes
    run,            \* SpecRun: one call of Component.run
    vs,             \* SpecVersion: a pattern, versions and what resolve gave
    tasks,          \* SpecStop: the tasks of the loop and one call of stop
    http            \* SpecHeaders: the HTTP response of a Response component

serverVars == <<component, asyncCallback, pc, state, schemas, command, reply, transport,
                replyAliased, result, nOps, callTransport, stream, nRecv, nSent,
                hookCalls, invoked, outcome, zombie, exitError>>
vars == <<serverVars, tb, tOps, mArg, mRaised, mBefore, clientCalls, mappings, contexts, pdoc, mp, run, vs, tasks, http>>

\* The Action's transport, the reply and the command as one binding.
Binding == [transport |-> transport, reply |-> reply, command |-> command,
            aliased |-> replyAliased, shared |-> {}]
SetBinding(b) ==
    /\ transport' = b.transport
    /\ reply' = b.reply
    /\ command' = b.command
    /\ replyAliased' = b.aliased

\* A transport and a reply holding an equal transport, before any call.
Bound(t) == [transport |-> t, reply |-> Map1(ns.COMMAND_REPLY, Map1(ns.RESULT, Map1(ns.TRANSPORT, t))),
             command |-> None, aliased |-> "", shared |-> {}]

Init ==
    /\ component \in {"service", "middleware"}
    /\ asyncCallback \in BOOLEAN
    /\ pc = "poll"
    /\ state = None
    /\ schemas = EmptyMap
    /\ command = None
    /\ reply = None
    /\ transport = None
    /\ replyAliased = ""
    /\ result = "none"
    /\ nOps = 0
    /\ callTransport = None
    /\ stream = <<>>
    /\ nRecv = 0
    /\ nSent = 0
    /\ hookCalls = <<>>
    /\ invoked = FALSE
    /\ outcome = "none"
    /\ zombie = {}
    /\ exitError = ""
    /\ tb = Bound(EmptyMap)
    /\ tOps = 0
    /\ mArg = None
    /\ mRaised = ""
    /\ mBefore = None
    /\ clientCalls = <<>>
    /\ mappings = <<EmptyMap>>
    /\ contexts = {}
    /\ pdoc = None
    /\ mp = None
    /\ run = None
    /\ vs = None
    /\ tasks = None
    /\ http = None

\* The loop ends with an exception that listen does not catch; the socket is
\* closed and the request in hand is not answered.
Crash(cls) ==
    /\ pc' = "closed"
    /\ exitError' = cls

\* State.create
State_create(msg) ==
    IF Len(msg) = 4 /\ msg[1].utf8 /\ msg[2].utf8
    THEN [id |-> decode(msg[1]), action |-> decode(msg[2]),
          schemas |-> msg[3], payload |-> msg[4]]
    ELSE None

\* Server.listen: a message is read and parsed; an invalid one is answered
\* with a generic error under the id '-'.  The outcome of an invalid message
\* is the ValueError that State.create logs.
Recv ==
    /\ pc = "poll"
    /\ nRecv < MaxRequests
    /\ \E msg \in Inbound(component, nRecv + 1) :
        /\ state' = State_create(msg)
        /\ IF State_create(msg) # None
           THEN /\ pc' = "handle"
                /\ UNCHANGED <<stream, outcome>>
           ELSE /\ pc' = "send"
                /\ stream' = create_error_stream("-", "Failed to handle request")
                /\ outcome' = IF Len(msg) < 4
                              THEN "not enough values to unpack (expected 4, got "
                                       \o ToString(Len(msg)) \o ")"
                              ELSE IF Len(msg) > 4
                              THEN "too many values to unpack (expected 4)"
                              ELSE "'utf-8' codec can't decode byte"
    /\ nRecv' = nRecv + 1
    /\ UNCHANGED <<component, asyncCallback, schemas, command, reply, transport, replyAliased,
                   result, nOps, callTransport, nSent, hookCalls, invoked, zombie,
                   exitError, tb, tOps, mArg, mRaised, mBefore, clientCalls, mappings, contexts, pdoc, mp, run, vs, tasks, http>>

\* The class of the component Server.__create_component builds.
ApiClass(comp, action) ==
    IF comp = "service" THEN "Action"
    ELSE IF action = "request" THEN "Request" ELSE "Response"

\* Server.__create_component
create_component(comp, action, sch, cmd) ==
    IF comp = "service"
    THEN Action_init(sch, cmd, Reply_new_action_reply(cmd),
                     IF Command_has(cmd, ns.TRANSPORT) THEN ns.TRANSPORT ELSE "",
                     values_name, values_version, action)
    ELSE IF action = "request"
    THEN [transport |-> None, reply |-> Reply_new_request_reply(cmd),
          command |-> cmd, aliased |-> "", shared |-> {}]
    ELSE [transport |-> None, reply |-> Reply_new_response_reply(cmd),
          command |-> cmd, shared |-> {},
          aliased |-> IF Command_has(cmd, ns.RESPONSE) THEN ns.RESPONSE ELSE ""]

\* Server.__process_request up to the point the callback starts: the schemas
\* are updated, the action is looked up, the command is decoded and the
\* component is created.
\* Not the code: the entries decoded are written into the mapping object
\* that is in use.
mapping_updated_in_place(objs, mapping) ==
    LET old == objs[Len(objs)]
    IN  [objs EXCEPT ![Len(objs)] =
            MapV([k \in DOMAIN old.m \cup DOMAIN mapping.m |->
                     IF k \in DOMAIN mapping.m THEN mapping.m[k] ELSE old.m[k]])]

\* Server.__update_schemas, self.__schemas = MappingPayload(schemas): the
\* mapping decoded is a new object, the one the server refers to from then
\* on; the objects made before are left as they are.
MappingPayload_new(objs, mapping) == Append(objs, mapping)

\* Server.__process_request
ProcessRequest ==
    /\ pc = "handle"
    /\ LET upd == IF NonEmptyBytes(state.schemas)
                  THEN update_schemas(schemas, state.schemas)
                  ELSE [raised |-> "", schemas |-> schemas]
           replaced == /\ NonEmptyBytes(state.schemas)
                       /\ upd.raised = ""
                       /\ CanUnpack(state.schemas)
                       /\ DictOf(unpack(state.schemas)).kind = "ok"
           objs == IF replaced THEN MappingPayload_new(mappings, upd.schemas)
                   ELSE mappings
           decoded == IF CanUnpack(state.payload) THEN DictOf(unpack(state.payload))
                      ELSE [kind |-> "UnpackError", doc |-> None]
       IN  IF upd.raised # ""
           THEN /\ Crash(upd.raised)
                /\ UNCHANGED <<schemas, command, reply, transport, replyAliased, result,
                               stream, invoked, outcome, mappings, contexts, pdoc, mp, run, vs, tasks, http>>
           ELSE /\ mappings' = objs
                /\ schemas' = objs[Len(objs)]
                /\ contexts' = contexts \cup {[id |-> state.id, schemas |-> Len(objs)]}
                /\ UNCHANGED exitError
                /\ IF state.action \notin Callbacks(component)
                   THEN /\ stream' = create_error_stream(state.id,
                               "Invalid action for component "
                               \o get_component_title(values_name, values_version)
                               \o ": \"" \o state.action \o "\"")
                        /\ outcome' = "unknown_action"
                        /\ pc' = "send"
                        /\ UNCHANGED <<command, reply, transport, replyAliased, result, invoked>>
                   ELSE IF decoded.kind # "ok"
                   THEN /\ stream' = create_error_stream(state.id,
                               "The request contains an invalid payload")
                        /\ outcome' = "invalid_payload"
                        /\ pc' = "send"
                        /\ UNCHANGED <<command, reply, transport, replyAliased, result, invoked>>
                   ELSE /\ SetBinding(create_component(component, state.action,
                                                       objs[Len(objs)], decoded.doc))
                        /\ result' = ApiClass(component, state.action)
                        /\ invoked' = TRUE
                        /\ pc' = "callback"
                        /\ UNCHANGED <<stream, outcome>>
    /\ UNCHANGED <<component, asyncCallback, state, nOps, callTransport, nRecv, nSent,
                   hookCalls, zombie, tb, tOps, mArg, mRaised, mBefore, clientCalls, pdoc,
                   mp, run, vs, tasks, http>>

\* What every API call of a callback leaves alone.
CallbackFrame ==
    UNCHANGED <<component, asyncCallback, pc, state, schemas, stream, nRecv, nSent,
                hookCalls, invoked, outcome, zombie, exitError, tb, tOps, mArg, mRaised, mBefore, clientCalls, mappings, contexts, pdoc, mp, run, vs, tasks, http>>

InCallback(cls) ==
    /\ pc = "callback"
    /\ result = cls
    /\ nOps < MaxOps

\* The callback calls action.set_entity(entity); the second entity holds an
\* object msgpack cannot pack.
SetEntity ==
    /\ InCallback("Action")
    /\ \E entity \in {Map1("id", Str("1")), Map1("id", Obj)} :
        SetBinding(Action_set_entity(Binding, values_name, values_version,
                                     state.action, entity))
    /\ nOps' = nOps + 1
    /\ UNCHANGED <<result, callTransport>>
    /\ CallbackFrame

\* The callback calls action.defer_call(service, version, action) for a
\* deferred call that is configured.
DeferCall ==
    /\ InCallback("Action")
    /\ LET aschema == ActionSchemaOf(schemas, values_name, values_version, state.action)
       IN  /\ aschema # None
           /\ ActionSchema_has_defer_call(aschema, Remote.service, Remote.version,
                                          Remote.action)
    /\ SetBinding(Transport_add_defer_call(Binding, values_name, values_version,
                                           state.action, Remote.service, Remote.version,
                                           Remote.action).b)
    /\ nOps' = nOps + 1
    /\ UNCHANGED <<result, callTransport>>
    /\ CallbackFrame

\* The callback calls action.set_property('p', 'v').
SetProperty ==
    /\ InCallback("Action")
    /\ SetBinding(Action_set_property(Binding, "p", "v"))
    /\ nOps' = nOps + 1
    /\ UNCHANGED <<result, callTransport>>
    /\ CallbackFrame

\* The callback calls action.error('oops').
Error ==
    /\ InCallback("Action")
    /\ SetBinding(Action_error(Binding, values_name, values_version, "oops", 0,
                               "500 Internal Server Error"))
    /\ nOps' = nOps + 1
    /\ UNCHANGED <<result, callTransport>>
    /\ CallbackFrame

\* The callback calls action.call(...) (Action.call or AsyncAction.call) for
\* a configured call.  The client sends a command with CallTransport; the
\* call returns (ok) with the remote transport, or raises CallError, which
\* the callback catches; either way add_call records the call.
Call ==
    LET \* The schema checks at the head of Action.call / AsyncAction.call: the call
        \* is configured for the action, and the remote action, when its schema is
        \* known, returns a value.
        CallConfigured(mapping, name, version, action, service, sversion, saction) ==
            LET aschema == ActionSchemaOf(mapping, name, version, action)
                remote == ActionSchemaOf(mapping, service, sversion, saction)
            IN  /\ aschema # None
                /\ ActionSchema_has_call(aschema, service, sversion, saction)
                /\ remote # None => ActionSchema_has_return(remote)
        \* The transport a remote service replies with to a run-time call made with
        \* transport t: t and the data the remote action added.
        RemoteTransport(t) ==
            Payload_append(t, <<ns.DATA, Transport_get_public_gateway_address(t),
                                Remote.service, Remote.version, Remote.action>>,
                           Map1("id", Str("9"))).doc
        \* The call dict of TransportPayload.add_call (no params, no files).
        CallInfo(callee_service, callee_version, callee_action, action, duration, timeout) ==
            MapV(MapPut(MapPut(MapPut(MapPut(MapPut(MapPut(<<>>,
                 ns.NAME, Str(callee_service)),
                 ns.VERSION, Str(callee_version)),
                 ns_ACTION, Str(callee_action)),
                 ns.CALLER, Str(action)),
                 ns.DURATION, Num(duration)),
                 ns.TIMEOUT, Num(timeout)))
    IN  /\ InCallback("Action")
        /\ CallConfigured(schemas, values_name, values_version, state.action,
                          Remote.service, Remote.version, Remote.action)
        /\ callTransport' = CallTransport(command)
        /\ \E ok \in BOOLEAN :
            LET other == IF ok THEN RemoteTransport(CallTransport(command)) ELSE None
                call == CallInfo(Remote.service, Remote.version, Remote.action,
                                 state.action, 5, EXECUTION_TIMEOUT)
                r == Transport_add_call(Binding, values_name, values_version, call, other)
            IN  /\ r.ok
                /\ SetBinding(r.b)
        /\ nOps' = nOps + 1
        /\ UNCHANGED result
        /\ CallbackFrame

\* A request middleware callback calls request.new_response(418, 'Teapot')
\* and goes on with the Response.
NewResponse ==
    /\ InCallback("Request")
    /\ LET status == ToString(418) \o " " \o "Teapot"
           r1 == Payload_set(reply, ReplyPrefix \o <<ns.RESPONSE, ns.STATUS>>, Str(status)).doc
       IN  reply' = Reply_set_response(r1, status)
    /\ result' = "Response"
    /\ nOps' = nOps + 1
    /\ UNCHANGED <<command, transport, replyAliased, callTransport>>
    /\ CallbackFrame

\* A middleware callback calls response.get_http_response().set_body('body').
SetBody ==
    /\ InCallback("Response")
    /\ LET r == Payload_set(reply, ReplyPrefix \o <<ns.RESPONSE, ns.BODY>>, Str("body")).doc
       IN  /\ reply' = r
           /\ command' = AliasedCommand(command, replyAliased, r)
    /\ nOps' = nOps + 1
    /\ UNCHANGED <<transport, replyAliased, result, callTransport>>
    /\ CallbackFrame

\* The callback returns: its component (valid) or something else.
\* Server.__process_response builds the reply; pack may raise.
CallbackReturn ==
    /\ pc = "callback"
    /\ \E valid \in BOOLEAN :
        LET r == process_response(IF valid THEN result ELSE "NoneType", state.id, reply,
                                  values_name, values_version)
        IN  /\ reply' = r.reply
            /\ IF r.ok
               THEN /\ stream' = r.stream
                    /\ pc' = "send"
                    /\ outcome' = IF valid THEN "returned" ELSE "invalid_result"
                    /\ UNCHANGED exitError
               ELSE /\ Crash("TypeError")
                    /\ UNCHANGED <<stream, outcome>>
    /\ UNCHANGED <<component, asyncCallback, state, schemas, command, transport,
                   replyAliased, result, nOps, callTransport, nRecv, nSent, hookCalls,
                   invoked, zombie, tb, tOps, mArg, mRaised, mBefore, clientCalls, mappings, contexts, pdoc, mp, run, vs, tasks, http>>

\* A faulty on_error that calls the hook twice.
on_error_twice(calls, exc) == Append(Append(calls, exc), exc)

\* Events.error, the on_error of the server: the component's error hook is
\* called with the exception (a hook is registered).
on_error(calls, exc) == Append(calls, exc)

\* The callback raises.  Server.__process_action calls on_error, then turns
\* a KusanagiError into an error action or response, and any other exception
\* into a bare error payload.
CallbackRaise ==
    /\ pc = "callback"
    /\ \E exc \in Exceptions :
        /\ hookCalls' = on_error(hookCalls, exc)
        /\ IF exc.cls = "KusanagiError"
           THEN LET h == handle_callback_error(exc, ApiClass(component, state.action),
                             schemas, command, reply, replyAliased,
                             values_name, values_version, state.action)
                    r == process_response(h.result, state.id, h.b.reply,
                                          values_name, values_version)
                IN  /\ SetBinding([h.b EXCEPT !.reply = r.reply])
                    /\ result' = h.result
                    /\ outcome' = "framework_error"
                    /\ IF r.ok
                       THEN stream' = r.stream /\ pc' = "send" /\ UNCHANGED exitError
                       ELSE Crash("TypeError") /\ UNCHANGED stream
           ELSE /\ stream' = <<encode(state.id), EMPTY_META,
                               pack(ErrorPayload_new(str(exc)))>>
                /\ pc' = "send"
                /\ outcome' = "exception"
                /\ UNCHANGED <<command, reply, transport, replyAliased, result, exitError>>
    /\ UNCHANGED <<component, asyncCallback, state, schemas, nOps, callTransport, nRecv,
                   nSent, invoked, zombie, tb, tOps, mArg, mRaised, mBefore, clientCalls, mappings, contexts, pdoc, mp, run, vs, tasks, http>>

\* A faulty timeout_ms that prints the timeout in seconds.
timeout_seconds == ToString(values_timeout \div 1000) \o ".0"

\* values.get_timeout() * 1000 / 1000.0 as Python prints a float.
timeout_ms == ToString(values_timeout) \o ".0"

\* Server.__handle_request: wait_for gives up on the callback.  A coroutine
\* callback is cancelled; a callback running in the executor goes on in its
\* thread, with nobody waiting for it.
Timeout ==
    /\ pc = "callback"
    /\ stream' = create_error_stream(state.id,
                     "Execution timed out after " \o timeout_ms \o "ms")
    /\ outcome' = "timeout"
    /\ pc' = "send"
    /\ zombie' = IF asyncCallback THEN zombie ELSE zombie \cup {state.id}
    /\ UNCHANGED <<component, asyncCallback, state, schemas, command, reply, transport,
                   replyAliased, result, nOps, callTransport, nRecv, nSent, hookCalls,
                   invoked, exitError, tb, tOps, mArg, mRaised, mBefore, clientCalls, mappings, contexts, pdoc, mp, run, vs, tasks, http>>

\* The thread of a timed-out callback ends: its result goes to a future
\* that was cancelled.
ZombieFinish ==
    /\ \E rid \in zombie :
        /\ zombie' = zombie \ {rid}
        /\ contexts' = {c \in contexts : c.id # rid \/ (state # None /\ state.id = rid)}
    /\ UNCHANGED <<component, asyncCallback, pc, state, schemas, command, reply, transport,
                   replyAliased, result, nOps, callTransport, stream, nRecv, nSent,
                   hookCalls, invoked, outcome, exitError, tb, tOps, mArg, mRaised, mBefore,
                   clientCalls, mappings, pdoc, mp, run, vs, tasks, http>>

\* Server.listen: the reply is sent and the loop polls again; the context of
\* the request is dropped.
Send ==
    /\ pc = "send"
    /\ nSent' = nSent + 1
    /\ pc' = "poll"
    /\ state' = None
    /\ command' = None
    /\ reply' = None
    /\ transport' = None
    /\ replyAliased' = ""
    /\ result' = "none"
    /\ nOps' = 0
    /\ callTransport' = None
    /\ stream' = <<>>
    /\ hookCalls' = <<>>
    /\ invoked' = FALSE
    /\ outcome' = "none"
    /\ contexts' = {c \in contexts : c.id \in zombie}
    /\ UNCHANGED <<component, asyncCallback, schemas, nRecv, zombie, exitError, tb, tOps,
                   mArg, mRaised, mBefore, clientCalls, mappings, pdoc, mp, run, vs, tasks, http>>

Spec == Init /\ [][Recv \/ ProcessRequest \/ SetEntity \/ SetProperty \/
                   Error \/ Call \/ DeferCall \/ NewResponse \/ SetBody \/
                   CallbackReturn \/ CallbackRaise \/ Timeout \/
                   ZombieFinish \/ Send]_vars

----------------------------------------------------------------------------
(* A second specification: a transport bound to a reply, and arbitrary      *)
(* set / append / extend / delete calls on it.                              *)

TransportPaths  == {<<>>, <<"a">>, <<"a", "b">>}

InitTransport ==
    /\ component = "service"
    /\ asyncCallback = FALSE
    /\ pc = "poll"
    /\ state = None
    /\ schemas = EmptyMap
    /\ command = None
    /\ reply = None
    /\ transport = None
    /\ replyAliased = ""
    /\ result = "none"
    /\ nOps = 0
    /\ callTransport = None
    /\ stream = <<>>
    /\ nRecv = 0
    /\ nSent = 0
    /\ hookCalls = <<>>
    /\ invoked = FALSE
    /\ outcome = "none"
    /\ zombie = {}
    /\ exitError = ""
    /\ tb \in {Bound(EmptyMap), Bound(Map1("a", ListV(<<Str("x")>>)))}
    /\ tOps = 0
    /\ mArg = None
    /\ mRaised = ""
    /\ mBefore = None
    /\ clientCalls = <<>>
    /\ mappings = <<EmptyMap>>
    /\ contexts = {}
    /\ pdoc = None
    /\ mp = None
    /\ run = None
    /\ vs = None
    /\ tasks = None
    /\ http = None

\* transport.set(path, value, prefix=prefix)
TSet ==
    /\ tOps < MaxTransportOps
    /\ \E path \in TransportPaths, value \in {Str("v"), EmptyList, EmptyMap}, prefix \in BOOLEAN :
        tb' = Transport_set(tb, path, value, prefix).b
    /\ tOps' = tOps + 1
    /\ UNCHANGED <<serverVars, mArg, mRaised, mBefore, clientCalls, mappings, contexts, pdoc, mp, run, vs, tasks, http>>

\* transport.append(path, value, prefix=prefix)
TAppend ==
    /\ tOps < MaxTransportOps
    /\ \E path \in TransportPaths, value \in {Str("v"), EmptyList, EmptyMap}, prefix \in BOOLEAN :
        tb' = Transport_append(tb, path, value, prefix).b
    /\ tOps' = tOps + 1
    /\ UNCHANGED <<serverVars, mArg, mRaised, mBefore, clientCalls, mappings, contexts, pdoc, mp, run, vs, tasks, http>>

\* transport.extend(path, values, prefix=prefix)
TExtend ==
    /\ tOps < MaxTransportOps
    /\ \E path \in TransportPaths, prefix \in BOOLEAN,
          values \in {<<Str("v")>>, <<Str("v"), Str("w")>>} :
        tb' = Transport_extend(tb, path, values, prefix).b
    /\ tOps' = tOps + 1
    /\ UNCHANGED <<serverVars, mArg, mRaised, mBefore, clientCalls, mappings, contexts, pdoc, mp, run, vs, tasks, http>>

\* transport.delete(path, prefix=prefix)
TDelete ==
    /\ tOps < MaxTransportOps
    /\ \E path \in TransportPaths, prefix \in BOOLEAN :
        tb' = Transport_delete(tb, path, prefix).b
    /\ tOps' = tOps + 1
    /\ UNCHANGED <<serverVars, mArg, mRaised, mBefore, clientCalls, mappings, contexts, pdoc, mp, run, vs, tasks, http>>

SpecTransport == InitTransport /\ [][TSet \/ TAppend \/ TExtend \/ TDelete]_vars

----------------------------------------------------------------------------
(* A third specification: a transport bound to a reply, and transports     *)
(* returned by run-time calls (or other arguments) merged into it.         *)

InitMerge ==
    /\ component = "service"
    /\ asyncCallback = FALSE
    /\ pc = "poll"
    /\ state = None
    /\ schemas = EmptyMap
    /\ command = None
    /\ reply = None
    /\ transport = None
    /\ replyAliased = ""
    /\ result = "none"
    /\ nOps = 0
    /\ callTransport = None
    /\ stream = <<>>
    /\ nRecv = 0
    /\ nSent = 0
    /\ hookCalls = <<>>
    /\ invoked = FALSE
    /\ outcome = "none"
    /\ zombie = {}
    /\ exitError = ""
    \* a transport of a request, or one with a new, empty ReplyPayload as its reply
    /\ LET \* Transports merged into.
           MergeDests ==
               { EmptyMap,
                 MapV(MapPut(MapPut(MapPut(<<>>,
                      ns.META, Map2(ns.ID, Str("1"), ns.GATEWAY, ListV(<<Str("g"), Str("h")>>))),
                      ns.DATA, Map2("a", Map1("b", ListV(<<Num(2)>>)), "l", ListV(<<Num(1)>>))),
                      "other", Str("o"))),
                 Map3(ns.DATA, Map1("a", Map2("b", ListV(<<Num(2)>>), "d", Num(5))),
                      ns.META, Map2(ns.ORIGIN, ListV(<<Str("s")>>), ns.PROPERTIES, Map1("p", Str("1"))),
                      ns.FILES, Map1("f", ListV(<<Str("x")>>))),
                 Map2(ns.BODY, Str("s"), ns.META, Map1(ns.ID, Str("1"))) }
       IN  tb \in {Bound(t) : t \in MergeDests}
                 \cup {[transport |-> t, reply |-> EmptyMap, command |-> None,
                        aliased |-> "", shared |-> {}] : t \in MergeDests}
    /\ tOps = 0
    /\ mArg = None
    /\ mRaised = ""
    /\ mBefore = None
    /\ clientCalls = <<>>
    /\ mappings = <<EmptyMap>>
    /\ contexts = {}
    /\ pdoc = None
    /\ mp = None
    /\ run = None
    /\ vs = None
    /\ tasks = None
    /\ http = None

\* transport.merge_runtime_call_transport(arg)
TMerge ==
    LET \* The arguments of a merge: transport payloads holding the transports merged
        \* from, and plain dicts.
        MergeArgs ==
            LET MergeSources ==
                    { EmptyMap,
                      Map2(ns.META, Map1(ns.ID, Str("2")),
                           ns.DATA, Map2("a", Map2("b", ListV(<<Num(3)>>), "c", Num(4)),
                                         "l", ListV(<<Num(2), Num(1)>>))),
                      MapV(MapPut(MapPut(MapPut(MapPut(<<>>,
                           ns.DATA, Map1("z", ListV(<<Num(1)>>))),
                           ns.CALLS, Map1("s", Map1("v", ListV(<<Map1(ns.NAME, Str("n"))>>)))),
                           ns.META, Map3(ns.ID, Str("2"), ns.PROPERTIES, Map1("q", Str("2")),
                                         ns.GATEWAY, ListV(<<Str("i"), Str("j")>>))),
                           "other", Str("n"))),
                      Map1(ns.BODY, Map1("k", Str("v"))),
                      Map2(ns.FILES, Map1("f", ListV(<<Str("y")>>)), ns.DATA, Str("d")),
                      Map1(ns.DATA, Map3("a", Map1("b", Map1("x", Num(1))), "l", Num(7),
                                         "n", Num(8))) }
            IN  {[cls |-> "TransportPayload", doc |-> d] : d \in MergeSources}
                \cup {[cls |-> "dict", doc |-> d] :
                          d \in {EmptyMap, Map1(ns.DATA, Map1("z", Str("v")))}}
    IN  /\ tOps < MaxMerges
        /\ \E arg \in MergeArgs :
            LET r == Transport_merge(tb, arg)
            IN  /\ tb' = r.b
                /\ mArg' = arg
                /\ mRaised' = r.raised
        /\ mBefore' = tb
        /\ tOps' = tOps + 1
        /\ UNCHANGED <<serverVars, clientCalls, mappings, contexts, pdoc, mp, run, vs, tasks, http>>

SpecMerge == InitMerge /\ [][TMerge]_vars

----------------------------------------------------------------------------
(* A fourth specification: calls made with the run-time call client.       *)

InitCall ==
    /\ component = "service"
    /\ asyncCallback = FALSE
    /\ pc = "poll"
    /\ state = None
    /\ schemas = EmptyMap
    /\ command = None
    /\ reply = None
    /\ transport = None
    /\ replyAliased = ""
    /\ result = "none"
    /\ nOps = 0
    /\ callTransport = None
    /\ stream = <<>>
    /\ nRecv = 0
    /\ nSent = 0
    /\ hookCalls = <<>>
    /\ invoked = FALSE
    /\ outcome = "none"
    /\ zombie = {}
    /\ exitError = ""
    /\ tb = Bound(EmptyMap)
    /\ tOps = 0
    /\ mArg = None
    /\ mRaised = ""
    /\ mBefore = None
    /\ clientCalls = <<>>
    /\ mappings = <<EmptyMap>>
    /\ contexts = {}
    /\ pdoc = None
    /\ mp = None
    /\ run = None
    /\ vs = None
    /\ tasks = None
    /\ http = None

\* client.call(address, action, callee, timeout, transport)
ClientCall ==
    LET \* The bytes a call can receive; CallReply is the reply of a successful
        \* runtime call: a return value and a transport.
        ResponseStreams ==
            LET CallReply(value, t) ==
                    Map1(ns.COMMAND_REPLY,
                         Map1(ns.RESULT, Map2(ns.RETURN, value, ns.TRANSPORT, t)))
            IN
            { BadBytes,
              EmptyBytes,
              Packed(Str("Boom !")),
              Packed(ListV(<<Num(1)>>)),
              Packed(ErrorPayload_new("boom")),
              Packed(Map1(ns.ERROR, EmptyMap)),
              Packed(Map2(ns.ERROR, Map1(ns.MESSAGE, Str("no")),
                          ns.COMMAND_REPLY, Map1(ns.RESULT, Map1(ns.RETURN, Num(1))))),
              Packed(EmptyMap),
              Packed(CallReply(Num(42), Map1(ns.DATA, Map1("k", ListV(<<Str("x")>>))))),
              Packed(CallReply(None, EmptyMap)),
              Packed(CallReply(Num(42), Str("abc"))) }
    IN  /\ Len(clientCalls) < MaxCalls
        \* failAt: a socket operation that raises, or no reply within the timeout
        /\ \E t \in {None, EmptyMap}, bytes \in ResponseStreams,
              failAt \in {"none", "connect", "send", "poll", "timeout", "recv"} :
            /\ (failAt # "none" \/ t = None) => bytes = BadBytes
            /\ clientCalls' = Append(clientCalls, AsyncClient_call(t, failAt, bytes))
        /\ UNCHANGED <<serverVars, tb, tOps, mArg, mRaised, mBefore, mappings, contexts, pdoc, mp, run, vs, tasks, http>>

SpecCall == InitCall /\ [][ClientCall]_vars

\* The reference map: a value of nested maps, read and written in plain
\* terms.  RefAt is the value at a path, Absent when there is none.
Absent == [t |-> "absent"]
RefAt(ref, path) ==
    LET RECURSIVE At(_, _)
        At(v, i) == IF i > Len(path) THEN v
                    ELSE IF v.t = "map" /\ path[i] \in DOMAIN v.m
                         THEN At(v.m[path[i]], i + 1)
                         ELSE Absent
    IN  At(ref, 1)

\* The reference with the value x stored at a path: the maps on the way are
\* rebuilt from the last name up, new ones where there was nothing.
RefPut(ref, path, x) ==
    LET RECURSIVE New(_)
        New(i) == IF i = Len(path) THEN x
                  ELSE LET here == RefAt(ref, SubSeq(path, 1, i))
                           m == IF here = Absent THEN <<>> ELSE here.m
                       IN  MapV([k \in DOMAIN m \cup {path[i + 1]} |->
                                    IF k = path[i + 1] THEN New(i + 1) ELSE m[k]])
    IN  New(0)

\* A path can be written when everything there is on the way to its last
\* name is a map.
RefWritable(ref, path) ==
    /\ path # <<>>
    /\ \A i \in 0..(Len(path) - 1) : RefAt(ref, SubSeq(path, 1, i)).t \in {"map", "absent"}

\* The plain operation that stands for each mutator.
RefApply(ref, kind, path, arg) ==
    LET old == RefAt(ref, path)
        parent == RefAt(ref, SubSeq(path, 1, Len(path) - 1))
        name == path[Len(path)]
    IN  CASE kind = "set" ->
                IF RefWritable(ref, path) THEN RefPut(ref, path, arg) ELSE ref
          [] kind = "append" ->
                IF RefWritable(ref, path) /\ old.t \in {"list", "absent"}
                THEN RefPut(ref, path,
                            ListV((IF old = Absent THEN <<>> ELSE old.l) \o <<arg>>))
                ELSE ref
          [] kind = "extend" ->
                IF RefWritable(ref, path) /\ old.t \in {"list", "absent"}
                THEN RefPut(ref, path,
                            ListV((IF old = Absent THEN <<>> ELSE old.l) \o arg))
                ELSE ref
          [] kind = "delete" ->
                IF path # <<>> /\ old # Absent
                THEN RefPut(ref, SubSeq(path, 1, Len(path) - 1),
                            MapV([k \in DOMAIN parent.m \ {name} |-> parent.m[k]]))
                ELSE ref

----------------------------------------------------------------------------
(* A fifth specification: calls made on a Payload that has a path prefix.  *)

MaxPayloadOps == 2

\* One call of a method of Payload on a document of a class with the path
\* prefix pfx: "if prefix and self.path_prefix: path = self.path_prefix +
\* path", then the method.  ret is what the call returns; delete unpacks
\* "*path, name = path", which raises ValueError when the path is empty.
Payload_call(doc, pfx, kind, path, arg, prefix) ==
    LET full == Prefixed(pfx, path, prefix)
        r == CASE kind = "set"    -> Payload_set(doc, full, arg)
               [] kind = "append" -> Payload_append(doc, full, arg)
               [] kind = "extend" -> Payload_extend(doc, full, arg)
               [] kind = "delete" -> Payload_delete(doc, full)
    IN  CASE kind = "exists" ->
                [raised |-> "", ret |-> Payload_exists(doc, full), doc |-> doc]
          [] kind = "equals" ->
                [raised |-> "", ret |-> Payload_equals(doc, full, arg), doc |-> doc]
          [] kind = "get" ->
                [raised |-> "", ret |-> Payload_get(doc, full, arg), doc |-> doc]
          [] kind = "delete" /\ full = <<>> ->
                [raised |-> "ValueError", ret |-> FALSE, doc |-> doc]
          [] OTHER -> [raised |-> "", ret |-> r.ok, doc |-> r.doc]

\* The paths and the values of the calls; the argument of an extend is the
\* sequence of the values of a list.
PayloadPaths == {<<>>, <<"a">>, <<"b">>, <<"a", "b">>, <<"b", "c">>}
PayloadValues == {Num(1), EmptyMap}

InitPayload ==
    /\ component = "service"
    /\ asyncCallback = FALSE
    /\ pc = "poll"
    /\ state = None
    /\ schemas = EmptyMap
    /\ command = None
    /\ reply = None
    /\ transport = None
    /\ replyAliased = ""
    /\ result = "none"
    /\ nOps = 0
    /\ callTransport = None
    /\ stream = <<>>
    /\ nRecv = 0
    /\ nSent = 0
    /\ hookCalls = <<>>
    /\ invoked = FALSE
    /\ outcome = "none"
    /\ zombie = {}
    /\ exitError = ""
    /\ tb = Bound(EmptyMap)
    /\ tOps = 0
    /\ mArg = None
    /\ mRaised = ""
    /\ mBefore = None
    /\ clientCalls = <<>>
    /\ mappings = <<EmptyMap>>
    /\ contexts = {}
    /\ mp = None
    /\ run = None
    /\ vs = None
    /\ tasks = None
    /\ http = None
    /\ \E pfx \in {<<>>, <<"a">>},
          doc \in {EmptyMap, Map2("a", Map2("b", Num(42), "l", EmptyList), "b", Str("s"))} :
        pdoc = [prefix |-> pfx, doc |-> doc, ref |-> doc, n |-> 0,
                last |-> [kind |-> "none"]]

\* payload.set / append / extend / delete (path, value, prefix=prefix); the
\* same operation is made on the reference map in plain terms.
PMutate ==
    /\ pdoc.n < MaxPayloadOps
    /\ \E kind \in {"set", "append", "extend", "delete"}, path \in PayloadPaths,
          value \in PayloadValues, prefix \in BOOLEAN :
        LET arg == CASE kind = "set" -> value
                     [] kind = "append" -> value
                     [] kind = "extend" -> <<value>>
                     [] kind = "delete" -> None
            r == Payload_call(pdoc.doc, pdoc.prefix, kind, path, arg, prefix)
        IN  /\ kind = "delete" => value = Num(1)
            /\ pdoc' = [prefix |-> pdoc.prefix, doc |-> r.doc, n |-> pdoc.n + 1,
                        ref |-> RefApply(pdoc.ref, kind,
                                         IF prefix THEN pdoc.prefix \o path ELSE path,
                                         arg),
                        last |-> [kind |-> kind, path |-> path, arg |-> arg,
                                  prefix |-> prefix, ret |-> r.ret,
                                  raised |-> r.raised, before |-> pdoc.doc]]
    /\ UNCHANGED <<serverVars, tb, tOps, mArg, mRaised, mBefore, clientCalls, mappings,
                   contexts, mp, run, vs, tasks, http>>

SpecPayload == InitPayload /\ [][PMutate]_vars

----------------------------------------------------------------------------
(* A sixth specification: values packed and unpacked.                      *)

InitMsgpack ==
    /\ component = "service"
    /\ asyncCallback = FALSE
    /\ pc = "poll"
    /\ state = None
    /\ schemas = EmptyMap
    /\ command = None
    /\ reply = None
    /\ transport = None
    /\ replyAliased = ""
    /\ result = "none"
    /\ nOps = 0
    /\ callTransport = None
    /\ stream = <<>>
    /\ nRecv = 0
    /\ nSent = 0
    /\ hookCalls = <<>>
    /\ invoked = FALSE
    /\ outcome = "none"
    /\ zombie = {}
    /\ exitError = ""
    /\ tb = Bound(EmptyMap)
    /\ tOps = 0
    /\ mArg = None
    /\ mRaised = ""
    /\ mBefore = None
    /\ clientCalls = <<>>
    /\ mappings = <<EmptyMap>>
    /\ contexts = {}
    /\ pdoc = None
    /\ run = None
    /\ vs = None
    /\ tasks = None
    /\ http = None
    /\ LET wall == "2017-01-27T20:12:08.952811"
           Typed(name, form) == ListV(<<Str("type"), name, form>>)
           \* None, True, 5, 1.5, 's', Decimal('123.321'), Decimal('5'), a date, a
           \* datetime without and with a time zone, a struct_time, an object
           scalars == {None, [t |-> "bool", b |-> TRUE], Num(5), [t |-> "float", f |-> "1.5"],
                       Str("s"), [t |-> "decimal", int |-> "123", frac |-> "321"],
                       [t |-> "decimal", int |-> "5", frac |-> ""],
                       [t |-> "date", iso |-> "2017-01-27"],
                       [t |-> "datetime", wall |-> wall, tz |-> ""],
                       [t |-> "datetime", wall |-> wall, tz |-> "+02:00"],
                       [t |-> "time", hms |-> "20:12:08", date |-> "2017-01-27"], Obj}
           \* lists of strings whose first is 'type'
           lists == {Typed(Str("date"), Str("2017-01-27")), Typed(Str("foo"), Str("bar")),
                     Typed(Str("time"), Str("x")), Typed(Str("date"), Str("x"))}
           items == scalars \cup lists
           values == items \cup {ListV(<<x>>) : x \in items}
                     \cup {Map1("k", x) : x \in items}
                     \cup {Map2("a", Num(1), "b", ListV(<<x, Str("s")>>)) : x \in items}
           \* what a peer can send in the place of a value of a custom type
           typed == {Typed(Str("unknown"), Str("x")), Typed(Num(5), Str("x")),
                     Typed(Str("date"), Str("")), Typed(Str("date"), Num(5)),
                     Typed(Str("decimal"), Str("x")),
                     Typed(Str("decimal"), ListV(<<Num(1)>>)),
                     Typed(Str("datetime"), Str("2017-01-27")),
                     Typed(Str("time"), Num(5)), Typed(Str("time"), Str("zz")),
                     Typed(Str("date"), Str("2017-01-27")),
                     Typed(Str("decimal"), ListV(<<Str("123"), Str("321")>>)),
                     Typed(Str("datetime"), Str(wall \o "+00:00")),
                     Typed(Str("time"), Str("20:12:08"))}
       IN  mp \in {[stage |-> "value", value |-> v, bytes |-> EmptyBytes, out |-> None,
                    raised |-> ""] : v \in values}
               \cup {[stage |-> "bytes", value |-> None, bytes |-> Packed(w), out |-> None,
                      raised |-> ""] :
                         w \in typed \cup {Map2("a", Num(1), "b", x) : x \in typed}}

\* pack(value)
MPack ==
    /\ mp.stage = "value"
    /\ mp' = IF Packable(mp.value)
             THEN [mp EXCEPT !.stage = "packed", !.bytes = pack(mp.value)]
             ELSE [mp EXCEPT !.stage = "raised", !.raised = "TypeError"]
    /\ UNCHANGED <<serverVars, tb, tOps, mArg, mRaised, mBefore, clientCalls, mappings,
                   contexts, pdoc, run, vs, tasks, http>>

\* unpack(bytes), of bytes packed here or received
MUnpack ==
    /\ mp.stage \in {"packed", "bytes"}
    /\ mp' = [mp EXCEPT !.stage = IF mp.stage = "packed" THEN "round" ELSE "decoded",
                        !.out = unpack(mp.bytes)]
    /\ UNCHANGED <<serverVars, tb, tOps, mArg, mRaised, mBefore, clientCalls, mappings,
                   contexts, pdoc, run, vs, tasks, http>>

SpecMsgpack == InitMsgpack /\ [][MPack \/ MUnpack]_vars

----------------------------------------------------------------------------
(* A seventh specification: one call of Component.run, with the server it  *)
(* starts.                                                                 *)

\* Not the code: a listen that closes the socket only when it returns.
listen_close_on_return(way) ==
    IF way \in {"EADDRINUSE", "bind EINTR", "bind error"}
    THEN [bound |-> FALSE, closes |-> 0,
          raised |-> IF way = "bind EINTR" THEN "" ELSE "KusanagiError"]
    ELSE [bound |-> TRUE,
          closes |-> IF way \in {"ZMQError", "Exception"} THEN 0 ELSE 1,
          raised |-> IF way \in {"ZMQError", "Exception"} THEN way ELSE ""]

\* Server.listen, by the way it ends: the bind fails (address in use, an
\* interrupted call, another error), or the loop is left by a cancellation,
\* by an interrupted socket operation, by another socket error or by an
\* exception of the handling of a request.  The finally clause closes the
\* socket.
Server_listen(way) ==
    IF way \in {"EADDRINUSE", "bind EINTR", "bind error"}
    THEN [bound |-> FALSE, closes |-> 0,
          raised |-> IF way = "bind EINTR" THEN "" ELSE "KusanagiError"]
    ELSE [bound |-> TRUE, closes |-> 1,
          raised |-> IF way \in {"ZMQError", "Exception"} THEN way ELSE ""]

InitRun ==
    /\ component = "service"
    /\ asyncCallback = FALSE
    /\ pc = "poll"
    /\ state = None
    /\ schemas = EmptyMap
    /\ command = None
    /\ reply = None
    /\ transport = None
    /\ replyAliased = ""
    /\ result = "none"
    /\ nOps = 0
    /\ callTransport = None
    /\ stream = <<>>
    /\ nRecv = 0
    /\ nSent = 0
    /\ hookCalls = <<>>
    /\ invoked = FALSE
    /\ outcome = "none"
    /\ zombie = {}
    /\ exitError = ""
    /\ tb = Bound(EmptyMap)
    /\ tOps = 0
    /\ mArg = None
    /\ mRaised = ""
    /\ mBefore = None
    /\ clientCalls = <<>>
    /\ mappings = <<EmptyMap>>
    /\ contexts = {}
    /\ pdoc = None
    /\ vs = None
    /\ tasks = None
    /\ http = None
    /\ mp = None
    /\ run \in {[pc |-> "startup", on_startup |-> a, on_shutdown |-> b, create |-> c,
                  way |-> w, calls |-> <<>>, success |-> FALSE, ret |-> FALSE,
                  raised |-> "", bound |-> FALSE, closes |-> 0] :
                    a \in {"none", "returns", "Exception"},
                    b \in {"none", "returns", "Exception"},
                    c \in {"returns", "ValueError", "SystemExit"},
                    w \in {"EADDRINUSE", "bind EINTR", "bind error", "CancelledError",
                           "EINTR", "ZMQError", "Exception"}}

\* Component.run: events.startup(self).  The callback, when there is one, is
\* called; an Exception it raises is logged.
RunStartup ==
    /\ run.pc = "startup"
    /\ run' = [run EXCEPT
                  !.calls = IF run.on_startup = "none" THEN @ ELSE Append(@, "startup"),
                  !.pc = IF run.on_startup = "Exception" THEN "shutdown" ELSE "server"]
    /\ UNCHANGED <<serverVars, tb, tOps, mArg, mRaised, mBefore, clientCalls, mappings,
                   contexts, pdoc, mp, vs, tasks, http>>

\* Component.run: create_server(...) and server.start().  create_server
\* parses the command line: argparse leaves with SystemExit, and a --var
\* without '=' raises ValueError.  Server.start runs listen to its end and
\* stops the loop in its finally clause.  An Exception is logged; SystemExit
\* is not an Exception and leaves run.
RunServer ==
    /\ run.pc = "server"
    /\ LET l == Server_listen(run.way)
       IN  run' = IF run.create = "SystemExit"
                  THEN [run EXCEPT !.calls = Append(@, "create_server"),
                                   !.pc = "raised", !.raised = "SystemExit"]
                  ELSE IF run.create # "returns"
                  THEN [run EXCEPT !.calls = Append(@, "create_server"), !.pc = "shutdown"]
                  ELSE [run EXCEPT
                          !.calls = @ \o <<"create_server", "start", "stopped">>,
                          !.bound = l.bound,
                          !.closes = l.closes,
                          !.success = (l.raised = ""),
                          !.pc = "shutdown"]
    /\ UNCHANGED <<serverVars, tb, tOps, mArg, mRaised, mBefore, clientCalls, mappings,
                   contexts, pdoc, mp, vs, tasks, http>>

\* Component.run: return success if events.shutdown(self) else False.
RunShutdown ==
    /\ run.pc = "shutdown"
    /\ run' = [run EXCEPT
                  !.calls = IF run.on_shutdown = "none" THEN @ ELSE Append(@, "shutdown"),
                  !.ret = run.success /\ run.on_shutdown # "Exception",
                  !.pc = "returned"]
    /\ UNCHANGED <<serverVars, tb, tOps, mArg, mRaised, mBefore, clientCalls, mappings,
                   contexts, pdoc, mp, vs, tasks, http>>

SpecRun == InitRun /\ [][RunStartup \/ RunServer \/ RunShutdown]_vars

----------------------------------------------------------------------------
(* An eighth specification: a version pattern resolved against versions.   *)
(* A version is the sequence of its dot-separated parts, a part the        *)
(* sequence of its dash-separated sub-parts, a sub-part the sequence of    *)
(* the code points of its characters ('0' is 48, 'a' is 97).  A pattern is *)
(* a sequence of parts too, Star standing for the part '*'.                *)

Star == <<<<42>>>>

\* str < str: the order of the code points, a proper prefix being lower.
RECURSIVE StrLess(_, _)
StrLess(a, b) ==
    IF b = <<>> THEN FALSE
    ELSE IF a = <<>> THEN TRUE
    ELSE IF Head(a) # Head(b) THEN Head(a) < Head(b)
    ELSE StrLess(Tail(a), Tail(b))

\* compare_sub_parts: 0 when equal; when one is an integer (int(value) does
\* not raise: digits only, here) and the other not, the integer is LOWER
\* (-1, sorts first); otherwise GREATER (1) when sub1 < sub2 as strings.
compare_sub_parts(sub1, sub2) ==
    LET is_integer(sub) == sub # <<>> /\ \A i \in DOMAIN sub : sub[i] \in 48..57
    IN  IF sub1 = sub2 THEN 0
        ELSE IF is_integer(sub1) # is_integer(sub2)
             THEN (IF is_integer(sub1) THEN -1 ELSE 1)
        ELSE IF StrLess(sub1, sub2) THEN 1 ELSE -1

\* compare, with compare_none: the parts and in them the sub-parts are
\* compared in turn by zip_longest; the side that runs out first is LOWER.
compare(ver1, ver2) ==
    LET RECURSIVE Zip(_, _, _)
        \* cmp compares two elements that are both there.
        Zip(x, y, inner) ==
            IF x = <<>> /\ y = <<>> THEN 0
            ELSE IF y = <<>> THEN 1
            ELSE IF x = <<>> THEN -1
            ELSE LET r == IF inner THEN compare_sub_parts(Head(x), Head(y))
                          ELSE Zip(Head(x), Head(y), TRUE)
                 IN  IF r # 0 THEN r ELSE Zip(Tail(x), Tail(y), inner)
    IN  IF ver1 = ver2 THEN 0 ELSE Zip(ver1, ver2, FALSE)

\* VersionString.match: without '*' the pattern is the version.  With it,
\* every '*' but a last one stands for one part ([^*.]+), a last one for
\* all that follows (.*); the other parts are the same.
VersionString_match(pattern, version) ==
    IF \A i \in DOMAIN pattern : pattern[i] # Star THEN pattern = version
    ELSE /\ IF pattern[Len(pattern)] = Star THEN Len(version) >= Len(pattern)
            ELSE Len(version) = Len(pattern)
         /\ \A i \in DOMAIN pattern : pattern[i] = Star \/ pattern[i] = version[i]

\* VersionString.resolve: the matching versions are sorted with compare and
\* the first is returned; the empty string when none matches.
VersionString_resolve(pattern, versions) ==
    LET valid_versions == SelectSeq(versions, LAMBDA ver : VersionString_match(pattern, ver))
        RECURSIVE Insert(_, _)
        Insert(sorted, ver) ==
            IF sorted = <<>> THEN <<ver>>
            ELSE IF compare(ver, sorted[Len(sorted)]) < 0
                 THEN Append(Insert(SubSeq(sorted, 1, Len(sorted) - 1), ver),
                             sorted[Len(sorted)])
                 ELSE Append(sorted, ver)
        RECURSIVE Sorted(_)
        Sorted(seq) == IF seq = <<>> THEN <<>>
                       ELSE Insert(Sorted(SubSeq(seq, 1, Len(seq) - 1)), seq[Len(seq)])
    IN  IF valid_versions = <<>> THEN <<>> ELSE Sorted(valid_versions)[1]

MaxVersions == 3

InitVersion ==
    /\ component = "service"
    /\ asyncCallback = FALSE
    /\ pc = "poll"
    /\ state = None
    /\ schemas = EmptyMap
    /\ command = None
    /\ reply = None
    /\ transport = None
    /\ replyAliased = ""
    /\ result = "none"
    /\ nOps = 0
    /\ callTransport = None
    /\ stream = <<>>
    /\ nRecv = 0
    /\ nSent = 0
    /\ hookCalls = <<>>
    /\ invoked = FALSE
    /\ outcome = "none"
    /\ zombie = {}
    /\ exitError = ""
    /\ tb = Bound(EmptyMap)
    /\ tOps = 0
    /\ mArg = None
    /\ mRaised = ""
    /\ mBefore = None
    /\ clientCalls = <<>>
    /\ mappings = <<EmptyMap>>
    /\ contexts = {}
    /\ pdoc = None
    /\ run = None
    /\ tasks = None
    /\ http = None
    /\ mp = None
    /\ LET p(c) == <<<<c>>>>
           V341  == <<p(51), p(52), p(49)>>                  \* 3.4.1
           V342  == <<p(51), p(52), p(50)>>                  \* 3.4.2
           V3412 == <<p(51), p(52), <<<<49, 50>>>>>>          \* 3.4.12
           V34a  == <<p(51), p(52), p(97)>>                  \* 3.4.a
           V3401 == <<p(51), p(52), <<<<48>>, <<49>>>>>>      \* 3.4.0-1
           V10   == <<p(49), p(48)>>                         \* 1.0
           pool == {V341, V342, V3412, V34a, V3401, V10}
           patterns == {<<Star>>, <<p(51), p(52), Star>>, V341,
                        <<p(51), p(52), Star, Star>>}
           lists == {l \in UNION {[1..n -> pool] : n \in 0..MaxVersions} :
                        \A i, j \in DOMAIN l : i # j => l[i] # l[j]}
       IN  vs \in {[pattern |-> pt, versions |-> l, done |-> FALSE, resolved |-> <<>>] :
                      pt \in patterns, l \in lists}

\* VersionString(pattern).resolve(versions)
VResolve ==
    /\ ~vs.done
    /\ vs' = [vs EXCEPT !.done = TRUE,
                        !.resolved = VersionString_resolve(vs.pattern, vs.versions)]
    /\ UNCHANGED <<serverVars, tb, tOps, mArg, mRaised, mBefore, clientCalls, mappings,
                   contexts, pdoc, mp, run, tasks, http>>

SpecVersion == InitVersion /\ [][VResolve]_vars

----------------------------------------------------------------------------
(* A ninth specification: Server.stop over the tasks of the loop.  A task  *)
(* is pending, or done: with a result, with an exception (its class), or   *)
(* cancelled.                                                              *)

MaxTasks == 3

\* Server.stop: the tasks are visited in the order all_tasks gives them.
\* task.exception() returns None for a task with a result and raises
\* CancelledError for a cancelled one, which leaves stop at once.  cancelled
\* holds the tasks cancel() was called on, raised what stop raises.
Server_stop(order) ==
    LET RECURSIVE Visit(_, _, _)
        Visit(i, error, cancelled) ==
            IF i > Len(order) THEN [raised |-> error, cancelled |-> cancelled]
            ELSE IF order[i] = "cancelled"
                 THEN [raised |-> "CancelledError", cancelled |-> cancelled]
            ELSE IF order[i] \notin {"pending", "result"} /\ error = ""
                 THEN Visit(i + 1, order[i], cancelled)
            ELSE Visit(i + 1, error, cancelled \cup {i})
    IN  Visit(1, "", {})

InitStop ==
    /\ component = "service"
    /\ asyncCallback = FALSE
    /\ pc = "poll"
    /\ state = None
    /\ schemas = EmptyMap
    /\ command = None
    /\ reply = None
    /\ transport = None
    /\ replyAliased = ""
    /\ result = "none"
    /\ nOps = 0
    /\ callTransport = None
    /\ stream = <<>>
    /\ nRecv = 0
    /\ nSent = 0
    /\ hookCalls = <<>>
    /\ invoked = FALSE
    /\ outcome = "none"
    /\ zombie = {}
    /\ exitError = ""
    /\ tb = Bound(EmptyMap)
    /\ tOps = 0
    /\ mArg = None
    /\ mRaised = ""
    /\ mBefore = None
    /\ clientCalls = <<>>
    /\ mappings = <<EmptyMap>>
    /\ contexts = {}
    /\ pdoc = None
    /\ run = None
    /\ vs = None
    /\ http = None
    /\ mp = None
    /\ tasks \in {[order |-> o, stopped |-> FALSE, raised |-> "", cancelled |-> {}] :
                     o \in UNION {[1..n -> {"pending", "result", "ValueError", "KeyError",
                                            "cancelled"}] : n \in 1..MaxTasks}}

\* The signal handler calls Server.stop.
Stop ==
    /\ ~tasks.stopped
    /\ tasks' = [tasks EXCEPT !.stopped = TRUE,
                              !.raised = Server_stop(tasks.order).raised,
                              !.cancelled = Server_stop(tasks.order).cancelled]
    /\ UNCHANGED <<serverVars, tb, tOps, mArg, mRaised, mBefore, clientCalls, mappings,
                   contexts, pdoc, mp, run, vs, http>>

SpecStop == InitStop /\ [][Stop]_vars

----------------------------------------------------------------------------
(* A tenth specification: the HttpResponse a response middleware gets from *)
(* Response.get_http_response, and the headers it sets.  http.reply is the *)
(* reply payload, http.headers the cache the HttpResponse keeps by         *)
(* upper-case name, http.want the values as the calls gave them.           *)

MaxHeaderOps == 3

\* str.upper over the header names used.
str_upper(name) ==
    IF name \in {"foo", "Foo", "FOO"} THEN "FOO"
    ELSE IF name \in {"bar", "BAR"} THEN "BAR"
    ELSE IF name \in {"fooh", "FOOH"} THEN "FOOH"
    ELSE name

\* HttpResponse.get_header_array(name), with the default [].
HttpResponse_get_header_array(h, name) ==
    IF str_upper(name) \in DOMAIN h.headers THEN h.headers[str_upper(name)] ELSE <<>>

\* HttpResponse.set_header.  The HttpResponsePayload is a shallow copy of
\* the reply's response: its headers dict is the dict at response.headers
\* of the reply, so what Payload.set and Payload.delete do to it is done to
\* the reply.  HttpResponsePayload.set then sets the same value in the
\* reply; HttpResponsePayload.append first sets the value itself at the
\* path, then calls append of the reply, which finds no list there.
HttpResponse_set_header(h, name, value, overwrite) ==
    LET path == ReplyPrefix \o <<ns.RESPONSE, ns.HEADERS>>
        hdrs == Payload_get(h.reply, path, None)
        val == IF value.t = "str" THEN value ELSE Str(ToString(value.n))
        uppercase_name == str_upper(name)
        similar == {n \in DOMAIN hdrs.m : str_upper(n) = uppercase_name}
        original_name == IF similar = {} THEN "" ELSE CHOOSE n \in similar : TRUE
        values == (IF overwrite THEN <<>> ELSE h.headers[uppercase_name]) \o <<val>>
        Payload_set_(doc, p, v) == Payload_set(doc, path \o p, v).doc
        HttpResponsePayload_set(doc, p, v) == Payload_set_(Payload_set_(doc, p, v), p, v)
        HttpResponsePayload_append(doc, p, v) ==
            Payload_append(Payload_set_(doc, p, v), path \o p, v).doc
        after == IF original_name # "" /\ original_name # name
                 THEN HttpResponsePayload_set(
                          Payload_delete(h.reply, path \o <<original_name>>).doc,
                          <<name>>, ListV(values))
                 ELSE IF overwrite
                      THEN HttpResponsePayload_set(h.reply, <<name>>, ListV(<<val>>))
                      ELSE HttpResponsePayload_append(h.reply, <<name>>, val)
        cached == IF uppercase_name \in DOMAIN h.headers /\ ~overwrite
                  THEN h.headers[uppercase_name] \o <<val>>
                  ELSE <<val>>
    IN  IF hdrs = None THEN [h EXCEPT !.raised = "AttributeError"]
        ELSE IF original_name # "" /\ original_name # name /\ ~overwrite
                /\ uppercase_name \notin DOMAIN h.headers
             THEN [h EXCEPT !.raised = "KeyError"]
        ELSE [h EXCEPT !.reply = after,
                       !.headers = MapPut(h.headers, uppercase_name, cached),
                       !.raised = ""]

InitHeaders ==
    /\ component = "service"
    /\ asyncCallback = FALSE
    /\ pc = "poll"
    /\ state = None
    /\ schemas = EmptyMap
    /\ command = None
    /\ reply = None
    /\ transport = None
    /\ replyAliased = ""
    /\ result = "none"
    /\ nOps = 0
    /\ callTransport = None
    /\ stream = <<>>
    /\ nRecv = 0
    /\ nSent = 0
    /\ hookCalls = <<>>
    /\ invoked = FALSE
    /\ outcome = "none"
    /\ zombie = {}
    /\ exitError = ""
    /\ tb = Bound(EmptyMap)
    /\ tOps = 0
    /\ mArg = None
    /\ mRaised = ""
    /\ mBefore = None
    /\ clientCalls = <<>>
    /\ mappings = <<EmptyMap>>
    /\ contexts = {}
    /\ pdoc = None
    /\ run = None
    /\ vs = None
    /\ tasks = None
    /\ mp = None
    \* the reply of a response: no headers section, or headers as lists of strings
    /\ \E response \in {Map1(ns.STATUS, Str("200 OK")),
                         Map1(ns.HEADERS, EmptyMap),
                         Map1(ns.HEADERS, Map1("foo", ListV(<<Str("a")>>))),
                         Map1(ns.HEADERS, Map1("fooh", ListV(<<Str("x"), Str("y")>>)))} :
           LET hdrs == Payload_get(response, <<ns.HEADERS>>, EmptyMap).m
               cache == [u \in {str_upper(n) : n \in DOMAIN hdrs} |->
                            hdrs[CHOOSE n \in DOMAIN hdrs : str_upper(n) = u].l]
           IN  http = [reply |-> Payload_set(EmptyMap, ReplyPrefix \o <<ns.RESPONSE>>,
                                             response).doc,
                       headers |-> cache, want |-> cache, raised |-> "", n |-> 0]

\* The middleware calls http_response.set_header(name, value, overwrite).
SetHeader ==
    /\ http.n < MaxHeaderOps
    /\ \E name \in {"foo", "Foo", "bar"}, value \in {Str("b"), Str("c"), Num(42)},
           overwrite \in BOOLEAN :
          LET u == str_upper(name)
              v == IF value.t = "str" THEN value ELSE Str("42")
              h == HttpResponse_set_header(http, name, value, overwrite)
          IN  http' = [h EXCEPT !.n = http.n + 1,
                                !.want = MapPut(http.want, u,
                                    IF overwrite \/ u \notin DOMAIN http.want THEN <<v>>
                                    ELSE http.want[u] \o <<v>>)]
    /\ UNCHANGED <<serverVars, tb, tOps, mArg, mRaised, mBefore, clientCalls, mappings,
                   contexts, pdoc, mp, run, vs, tasks>>

SpecHeaders == InitHeaders /\ [][SetHeader]_vars

----------------------------------------------------------------------------
(* Properties of the server loop (Spec).                                   *)

\* The command as the request in hand carried it.
InboundCommand == DictOf(unpack(state.payload)).doc

\* An error payload with the default code and status.
ErrorReply(message) ==
    Packed(Map1("error", MapV(MapPut(MapPut(MapPut(<<>>, "message", Str(message)),
                                            "code", Num(0)),
                                     "status", Str("500 Internal Server Error")))))

\* C1: the loop strictly alternates receive and send: every message received
\* gets exactly one reply before the next one is received, the first frame
\* of the reply is the id of the request answered ('-' for a message that
\* could not be parsed), and the loop never stops with a request unanswered.
C1_Alternation ==
    /\ pc # "closed"
    /\ pc = "poll" => nRecv = nSent
    /\ pc \in {"handle", "callback", "send"} => nRecv = nSent + 1
    /\ pc = "send" => stream[1] = Utf8(IF state = None THEN "-" ELSE state.id)

\* C2: no error met while a request is served ends the listen loop: a
\* well-formed reply of three frames is produced for the request, whatever
\* the schema bytes, the command bytes, the callback or the reply are.
C2_LoopSurvives ==
    /\ exitError = ""
    /\ pc \in {"poll", "handle", "callback", "send"}
    /\ pc = "send" => (Len(stream) = 3 /\ CanUnpack(stream[3]))

\* The schemas frame of a well-formed request: empty, or a packed mapping.
WellFormedSchemas(bytes) ==
    ~NonEmptyBytes(bytes) \/ (CanUnpack(bytes) /\ IsMap(unpack(bytes)))

\* C3: a well-formed request that names an action without a registered
\* callback is answered, and the answer to a request naming such an action
\* is an error payload whose message is 'Invalid action for component ...',
\* with the empty flags; no callback and no error hook is invoked for it.
C3_UnknownAction ==
    (state # None /\ state.action \notin Callbacks(component) /\ pc # "handle") =>
        /\ WellFormedSchemas(state.schemas) => pc = "send"
        /\ pc = "send" =>
            /\ stream = <<Utf8(state.id), <<0>>,
                          ErrorReply("Invalid action for component \"foo\" (1.0): \""
                                     \o state.action \o "\"")>>
            /\ ~invoked
            /\ hookCalls = <<>>

C3_Witness ==
    /\ pc = "send"
    /\ outcome = "unknown_action"
    /\ state.action = "nope"
    /\ WellFormedSchemas(state.schemas)
    /\ NonEmptyBytes(state.schemas)

\* C4: the reply to a request that timed out is an error payload whose
\* message is 'Execution timed out after 30000.0ms', with the empty flags,
\* also once the callback thread that was left running has ended; and no
\* reply to another request carries the id of a request whose callback was
\* left running, so that what it produces is never sent.
C4_Timeout ==
    /\ (pc = "send" /\ outcome = "timeout") =>
           stream = <<Utf8(state.id), <<0>>,
                      ErrorReply("Execution timed out after 30000.0ms")>>
    /\ (pc = "send" /\ outcome # "timeout") =>
           \A rid \in zombie : stream[1] # Utf8(rid)

C4_Witness ==
    /\ pc = "send"
    /\ outcome = "timeout"
    /\ nOps > 0
    /\ state.id \in zombie

\* The error entry a framework error leaves in a transport.
ErrorEntry(message) ==
    MapV(MapPut(MapPut(MapPut(<<>>, "message", Str(message)), "code", Num(0)),
                "status", Str("500 Internal Server Error")))

\* The list of errors of the component in the transport of a reply.
ErrorsIn(doc, gateway) ==
    Payload_get(doc, <<"command_reply", "result", "transport", "errors",
                       gateway, "foo", "1.0">>, EmptyList).l

\* C5: when a callback raises a KusanagiError and a reply is produced, the
\* reply keeps its shape.  For a service it is the action reply as the
\* callback left it, with exactly one more error entry, holding the message
\* of the exception and the status '500 Internal Server Error', under
\* errors[gateway][service][version].  For a middleware it holds a response
\* with status '500 Internal Server Error' and the message as body, and no
\* call.
C5_FrameworkError ==
    [][(pc = "callback" /\ pc' = "send" /\ outcome' = "framework_error") =>
        LET exc == hookCalls'[Len(hookCalls')]
            sent == unpack(stream'[3])
            gateway == IF Command_has(InboundCommand, "transport")
                       THEN "gw.example" ELSE ""
        IN  IF component = "service"
            THEN /\ ErrorsIn(sent, gateway) =
                        Append(ErrorsIn(reply, gateway), ErrorEntry(exc.message))
                 /\ Payload_delete(sent, <<"command_reply", "result", "transport",
                                           "errors">>).doc
                    = Payload_delete(reply, <<"command_reply", "result", "transport",
                                              "errors">>).doc
                 /\ \A gw \in {"", "gw.example"} \ {gateway} :
                        ErrorsIn(sent, gw) = ErrorsIn(reply, gw)
            ELSE /\ Payload_get(sent, <<"command_reply", "result", "response", "status">>, None)
                        = Str("500 Internal Server Error")
                 /\ Payload_get(sent, <<"command_reply", "result", "response", "body">>, None)
                        = Str(exc.message)
                 /\ ~Payload_exists(sent, <<"command_reply", "result", "call">>)
      ]_vars

C5_Witness ==
    /\ pc = "send"
    /\ outcome = "framework_error"
    /\ component = "service"
    /\ Len(ErrorsIn(unpack(stream[3]), "gw.example")) = 2
    /\ Payload_exists(reply, <<"command_reply", "result", "transport", "data">>)

\* C6: when a callback raises an exception that is not a KusanagiError the
\* reply is an error payload holding the message of the exception and
\* nothing of the reply or transport the callback wrote; its flags are the
\* empty flags.
C6_Exception ==
    (pc = "send" /\ outcome = "exception") =>
        /\ hookCalls # <<>>
        /\ \E exc \in Exceptions :
            /\ exc.cls # "KusanagiError"
            /\ hookCalls[1] = exc
            /\ stream = <<Utf8(state.id), <<0>>, ErrorReply(exc.message)>>

C6_Witness ==
    /\ pc = "send"
    /\ outcome = "exception"
    /\ nOps = 2
    /\ component = "service"
    /\ Payload_exists(reply, <<"command_reply", "result", "transport", "data">>)
    /\ Payload_exists(reply, <<"command_reply", "result", "transport", "errors">>)

\* C7: the error hook is called exactly once, with the exception raised and
\* before the reply is sent, for a request whose callback raises a
\* KusanagiError or any other exception; it is not called for a request
\* whose callback returns, whose action is unknown, which times out, or
\* which is not dispatched at all.
C7_ErrorHook ==
    /\ outcome \in {"framework_error", "exception"} =>
        /\ Len(hookCalls) = 1
        /\ hookCalls[1] \in Exceptions
        /\ (hookCalls[1].cls = "KusanagiError") <=> (outcome = "framework_error")
    /\ outcome \notin {"framework_error", "exception"} => hookCalls = <<>>
    /\ pc = "poll" => hookCalls = <<>>

C7_Witness ==
    /\ pc = "send"
    /\ component = "middleware"
    /\ hookCalls = <<[cls |-> "KusanagiError", message |-> "denied"]>>
    /\ nSent = 1

\* C8: while an action runs, and when its reply is ready, the transport
\* inside the command of the request equals the transport received.
C8_CommandTransportKept ==
    (component = "service" /\ pc \in {"callback", "send", "closed"} /\ command # None) =>
        Command_get_transport_data(command) = Command_get_transport_data(InboundCommand)

\* C9: the transport sent in the command of a run-time call equals the
\* transport received with the request of the calling action.
C9_CallTransportIsInbound ==
    callTransport # None => callTransport = Command_get_transport_data(InboundCommand)

----------------------------------------------------------------------------
(* Properties of a bound transport (SpecTransport).                        *)

\* C10: after any sequence of set / append / extend / delete calls on a
\* transport bound to a reply, the transport sub-tree of the reply equals
\* the transport.
C10_ReplyMirrorsTransport ==
    Payload_get(tb.reply, <<"command_reply", "result", "transport">>, None) = tb.transport


----------------------------------------------------------------------------
(* Properties of the merge of a returned transport (SpecMerge).            *)

\* The last step was a merge, and it returned.
Merged == mArg # None /\ mRaised = ""

\* C11: after a returned transport was merged into a transport bound to a
\* reply, the reply's whole transport sub-tree equals the merged transport's
\* tree: a full replacement, paths outside the mergeable ones included.
C11_ReplyHoldsMergedTransport ==
    Merged => Reply_transport_data(tb.reply) = tb.transport

\* A merge into a transport whose reply held no transport, that changed the
\* transport and left it with a key outside the mergeable paths.
C11_Witness ==
    /\ Merged
    /\ mBefore.reply = EmptyMap
    /\ tb.transport # mBefore.transport
    /\ "other" \in DOMAIN tb.transport.m

\* The dicts at the i-th mergeable path: of the transport merged from, of the
\* destination before the merge and of the destination after it.
SrcAt(i)    == Payload_get(mArg.doc, MERGEABLE_PATHS[i], None)
BeforeAt(i) == Payload_get(mBefore.transport, MERGEABLE_PATHS[i], None)
AfterAt(i)  == Payload_get(tb.transport, MERGEABLE_PATHS[i], None)

\* Every key of both dicts that holds a list in both holds, afterwards, the
\* destination's entries followed by the source's; the same inside every
\* dict both hold under one key.
RECURSIVE ListsAppended(_, _, _)
ListsAppended(src, before, after) ==
    \A k \in DOMAIN src.m \cap DOMAIN before.m :
        IF IsList(src.m[k]) /\ IsList(before.m[k])
        THEN k \in DOMAIN after.m /\ after.m[k] = ListV(before.m[k].l \o src.m[k].l)
        ELSE IF IsMap(src.m[k]) /\ IsMap(before.m[k])
             THEN /\ k \in DOMAIN after.m
                  /\ IsMap(after.m[k])
                  /\ ListsAppended(src.m[k], before.m[k], after.m[k])
             ELSE TRUE

\* C12: where a key is in both dicts with sequence values, the merged list
\* is the destination's entries in their former order followed by the
\* source's entries in source order, at every nesting depth.
C12_ListsExtended ==
    Merged => \A i \in 1..Len(MERGEABLE_PATHS) :
                 (IsMap(SrcAt(i)) /\ IsMap(BeforeAt(i)))
                     => IsMap(AfterAt(i)) /\ ListsAppended(SrcAt(i), BeforeAt(i), AfterAt(i))

\* A merge of data {a: {b: [3]}, l: [2, 1]} into data {a: {b: [2]}, l: [1]}.
C12_Witness ==
    /\ Merged
    /\ Payload_get(mBefore.transport, <<ns.DATA, "l">>, None) = ListV(<<Num(1)>>)
    /\ Payload_get(mArg.doc, <<ns.DATA, "l">>, None) = ListV(<<Num(2), Num(1)>>)
    /\ Payload_get(tb.transport, <<ns.DATA, "l">>, None) = ListV(<<Num(1), Num(2), Num(1)>>)
    /\ Payload_get(tb.transport, <<ns.DATA, "a", "b">>, None) = ListV(<<Num(2), Num(3)>>)

\* The keys of a dict, none for a path that is absent.
KeysOf(v) == IF IsMap(v) THEN DOMAIN v.m ELSE {}

\* C13: where the source's keys under a mergeable path are disjoint from the
\* destination's, the destination holds exactly the union afterwards: every
\* source entry and every former entry with its value unchanged, and
\* nothing else.
C13_DisjointUnion ==
    Merged => \A i \in 1..Len(MERGEABLE_PATHS) :
                 ( /\ IsMap(SrcAt(i))
                   /\ IsMap(BeforeAt(i)) \/ BeforeAt(i) = None
                   /\ KeysOf(SrcAt(i)) \cap KeysOf(BeforeAt(i)) = {} )
                     => /\ IsMap(AfterAt(i))
                        /\ KeysOf(AfterAt(i)) = KeysOf(SrcAt(i)) \cup KeysOf(BeforeAt(i))
                        /\ \A k \in KeysOf(SrcAt(i)) : AfterAt(i).m[k] = SrcAt(i).m[k]
                        /\ \A k \in KeysOf(BeforeAt(i)) : AfterAt(i).m[k] = BeforeAt(i).m[k]

\* A merge of data {z: ...} into data {a: ..., l: ...}, and of calls into a
\* transport without calls.
C13_Witness ==
    /\ Merged
    /\ KeysOf(Payload_get(mBefore.transport, <<ns.DATA>>, None)) = {"a", "l"}
    /\ KeysOf(Payload_get(mArg.doc, <<ns.DATA>>, None)) = {"z"}
    /\ KeysOf(Payload_get(tb.transport, <<ns.DATA>>, None)) = {"a", "l", "z"}
    /\ Payload_get(mBefore.transport, <<ns.CALLS>>, None) = None
    /\ Payload_get(tb.transport, <<ns.CALLS>>, None) = Payload_get(mArg.doc, <<ns.CALLS>>, None)

\* The top-level keys a merge may write, and the keys of meta it may write.
MergeableRoots == {ns.DATA, ns.RELATIONS, ns.LINKS, ns.CALLS, ns.TRANSACTIONS, ns.ERRORS,
                   ns.BODY, ns.FILES, ns.META}
MergeableMeta  == {ns.FALLBACKS, ns.PROPERTIES}

\* Every key only the destination held keeps its value, at every depth.
RECURSIVE OnlyInDestKept(_, _, _)
OnlyInDestKept(src, before, after) ==
    /\ IsMap(after)
    /\ \A k \in DOMAIN before.m :
          /\ k \in DOMAIN after.m
          /\ IF k \notin DOMAIN src.m THEN after.m[k] = before.m[k]
             ELSE IF IsMap(src.m[k]) /\ IsMap(before.m[k])
                  THEN OnlyInDestKept(src.m[k], before.m[k], after.m[k])
                  ELSE TRUE

C15_TypeError ==
    (mArg # None /\ mArg.cls # "TransportPayload")
        => /\ mRaised = "TypeError"
           /\ tb.transport = mBefore.transport
           /\ tb.reply = mBefore.reply

\* A dict with data was given to the merge of a transport that holds data.
C15_Witness ==
    /\ mArg # None
    /\ mArg.cls = "dict"
    /\ IsMap(Payload_get(mArg.doc, <<ns.DATA>>, None))
    /\ IsMap(Payload_get(mBefore.transport, <<ns.DATA>>, None))
    /\ mRaised = "TypeError"

----------------------------------------------------------------------------
(* Properties of run-time calls.                                           *)

\* The call records under calls[service][version] of a transport.
CallsOf(t) ==
    LET calls == Payload_get(t, <<ns.CALLS, values_name, values_version>>, EmptyList)
    IN  IF IsList(calls) THEN calls.l ELSE <<>>

\* The record Action.call adds for a call to Remote.
IsCallRecord(c) ==
    /\ IsMap(c)
    /\ Payload_get(c, <<ns.NAME>>, None) = Str(Remote.service)
    /\ Payload_get(c, <<ns.VERSION>>, None) = Str(Remote.version)
    /\ Payload_get(c, <<ns_ACTION>>, None) = Str(Remote.action)
    /\ Payload_get(c, <<ns.CALLER>>, None) = Str(state.action)
    /\ Payload_get(c, <<ns.DURATION>>, None) # None

\* C16: every run-time call that reaches the call client adds exactly one
\* call record (name, version, action, caller, duration) under
\* calls[service][version] of the caller's transport, whether the call
\* succeeds or fails.
C16_OneCallRecord ==
    [][Call => /\ Len(CallsOf(transport')) = Len(CallsOf(transport)) + 1
               /\ IsCallRecord(CallsOf(transport')[Len(CallsOf(transport'))])]_vars

----------------------------------------------------------------------------
(* Properties of the call client (SpecCall).                               *)

\* The calls that got as far as the socket.
Outbound == {i \in 1..Len(clientCalls) : clientCalls[i].sockets > 0}

\* C17: when no reply arrives within the timeout the call fails with one
\* call error whose message is exactly 'Run-time call failed: Timeout', and
\* the command was sent exactly once: no retry.
C17_TimeoutOnce ==
    \A i \in Outbound :
        clientCalls[i].failAt = "timeout"
            => /\ clientCalls[i].raised = "CallError"
               /\ clientCalls[i].message = "Run-time call failed: Timeout"
               /\ clientCalls[i].sends = 1
               /\ clientCalls[i].connects = 1
               /\ clientCalls[i].value = None /\ clientCalls[i].transport = None

\* A call timed out, and another call was made after it.
C17_Witness ==
    /\ Len(clientCalls) = 2
    /\ 1 \in Outbound
    /\ clientCalls[1].failAt = "timeout"
    /\ clientCalls[1].raised = "CallError"

\* C18: every outbound call opens exactly one connection and has released
\* it, disconnected and closed, when the call returns or raises: on success,
\* on a timeout, and when connect, send, poll or receive fails.
C18_ConnectionReleased ==
    \A i \in Outbound :
        /\ clientCalls[i].sockets = 1
        /\ clientCalls[i].connects = 1
        /\ clientCalls[i].disconnected
        /\ clientCalls[i].closed

\* The outcome the reply bytes stand for.
OutcomeOf(bytes) ==
    IF ~CanUnpack(bytes) THEN "Run-time call failed: The response format is invalid"
    ELSE IF ~IsMap(unpack(bytes)) THEN "Run-time call failed: The payload data is not valid"
    ELSE IF ns.ERROR \in DOMAIN unpack(bytes).m
         THEN "Run-time call failed: "
                  \o Payload_get(unpack(bytes), <<ns.ERROR, ns.MESSAGE>>, Str("Unknown error")).s
         ELSE ""

\* C19: a call that received reply bytes ends in the one outcome the bytes
\* stand for: a call error 'The response format is invalid' for bytes that
\* cannot be decoded, 'The payload data is not valid' for a value that is
\* not a map, the remote message for a map with an error section, and
\* otherwise the return of the reply's return value and transport.
C19_OutcomeByBytes ==
    \A i \in Outbound :
        clientCalls[i].failAt = "none"
            => IF OutcomeOf(clientCalls[i].stream) # ""
               THEN /\ clientCalls[i].raised = "CallError"
                    /\ clientCalls[i].message = OutcomeOf(clientCalls[i].stream)
               ELSE /\ clientCalls[i].raised = ""
                    /\ clientCalls[i].value
                           = Payload_get(unpack(clientCalls[i].stream),
                                         ReplyPrefix \o <<ns.RETURN>>, None)
                    /\ clientCalls[i].transport
                           = Reply_get_transport(unpack(clientCalls[i].stream))

----------------------------------------------------------------------------
(* Properties of the flags of a reply (Spec).                              *)

\* The reply to send is a service action's command reply (not an error
\* payload), and its transport.
ActionReplied ==
    /\ pc = "send"
    /\ component = "service"
    /\ CanUnpack(stream[3])
    /\ IsMap(unpack(stream[3]))
    /\ ns.COMMAND_REPLY \in DOMAIN unpack(stream[3]).m
SentTransport == Payload_get(unpack(stream[3]), ReplyPrefix \o <<ns.TRANSPORT>>, None)

\* The bytes of the flags frame.
FlagBytes == {stream[2][i] : i \in 1..Len(stream[2])}

\* The transport holds, for this service and version, a call that is still to
\* be made: one without a duration.
PendingCall(t) ==
    LET calls == Payload_get(t, <<ns.CALLS, values_name, values_version>>, EmptyList)
    IN  \E i \in 1..Len(calls.l) :
            ns.DURATION \notin DOMAIN calls.l[i].m \/ calls.l[i].m[ns.DURATION] = None

\* C20: in the reply of a service action each flag is in the flags frame
\* exactly when its condition holds on the transport of the reply sent: a
\* call still to be made for this service and version, files, transactions,
\* a download body, whether the callback wrote the section or the inbound
\* transport held it; the frame is the empty-flags sentinel exactly when
\* none holds.
C20_Flags ==
    ActionReplied =>
        LET t == SentTransport
            none == /\ ~PendingCall(t)
                    /\ KeysOf(t) \cap {ns.FILES, ns.TRANSACTIONS, ns.BODY} = {}
        IN  /\ (1 \in FlagBytes) <=> PendingCall(t)
            /\ (2 \in FlagBytes) <=> (ns.FILES \in KeysOf(t))
            /\ (3 \in FlagBytes) <=> (ns.TRANSACTIONS \in KeysOf(t))
            /\ (4 \in FlagBytes) <=> (ns.BODY \in KeysOf(t))
            /\ (stream[2] = <<0>>) <=> none
            /\ FlagBytes \subseteq (IF none THEN {0} ELSE {1, 2, 3, 4})

\* A callback that only registered one deferred call, on a transport without
\* any of the sections, returned: the frame holds the has-calls flag alone.
C20_Witness ==
    /\ ActionReplied
    /\ outcome = "returned"
    /\ nOps = 1
    /\ InboundCommand = CommandWithTransport
    /\ Len(Payload_get(SentTransport, <<ns.CALLS, values_name, values_version>>,
                       EmptyList).l) = 1
    /\ PendingCall(SentTransport)
    /\ stream[2] = <<1>>

----------------------------------------------------------------------------
(* C21: the length of the flags frame.                                     *)

\* One transport for each set of flag conditions: a call of this service and
\* version without a duration, files, transactions, a download body.
FlagTransports ==
    LET calls == Map1(values_name,
                      Map1(values_version, ListV(<<Map1(ns.NAME, Str("n"))>>)))
        Section(k) == IF k = ns.CALLS THEN calls ELSE Map1("k", Str("v"))
    IN  {MapV([k \in ks |-> Section(k)]) :
            ks \in SUBSET {ns.CALLS, ns.FILES, ns.TRANSACTIONS, ns.BODY}}

\* The flag conditions that hold on a transport.
FlagConditions(t) ==
    <<PendingCall(t), ns.FILES \in KeysOf(t), ns.TRANSACTIONS \in KeysOf(t),
      ns.BODY \in KeysOf(t)>>

\* C21 (as the spec states it): the flags frame of every reply is exactly one
\* byte long.
C21_OneByte == pc = "send" => Len(stream[2]) = 1

\* C21 (amended): the flags frame of a reply is the empty-flags sentinel, or
\* the single-byte flags that are set one after the other in the fixed order
\* calls, files, transactions, download, so one to four bytes long; and
\* each set of conditions has its own frame: no transport with other
\* conditions gets the frame of the reply sent.
C21_FlagsFrame ==
    pc = "send" =>
        /\ \/ stream[2] = EMPTY_META
           \/ /\ Len(stream[2]) \in 1..4
              /\ \A i \in 1..Len(stream[2]) :
                    /\ stream[2][i] \in 1..4
                    /\ i > 1 => stream[2][i - 1] < stream[2][i]
        /\ (ActionReplied /\ IsMap(SentTransport)) =>
              \A t \in FlagTransports :
                  Flags(t, values_name, values_version) = stream[2]
                      => FlagConditions(t) = FlagConditions(SentTransport)

\* The reply of an action that registered a deferred call on a transport
\* with files: a frame of two bytes.
C21_Witness ==
    /\ ActionReplied
    /\ outcome = "returned"
    /\ PendingCall(SentTransport)
    /\ ns.FILES \in KeysOf(SentTransport)
    /\ stream[2] = <<1, 2>>

----------------------------------------------------------------------------
(* C22, C23: the process-wide schema mapping.                              *)

\* The mapping that the context of the request in hand refers to.
ContextSchemas(objs, ctxs, rid) ==
    LET c == CHOOSE c \in ctxs : c.id = rid IN objs[c.schemas]

\* Every service version registered in a mapping is resolved in another.
Resolves(seen, registered) ==
    \A name \in KeysOf(registered) : \A version \in KeysOf(registered.m[name]) :
        Mapping_get_service_schema_payload(seen, name, version)
            = registered.m[name].m[version]

C23_ReplacedWholesale ==
    [][/\ \A i \in 1..Len(mappings) : mappings'[i] = mappings[i]
       /\ \A c \in contexts : \A d \in contexts' : d.id = c.id => d = c
       /\ schemas' = mappings'[Len(mappings')]
       /\ \/ schemas' = schemas
          \/ /\ pc = "handle"
             /\ CanUnpack(state.schemas)
             /\ schemas' = unpack(state.schemas)]_vars

\* The thread of a timed-out callback of the first request still holds the
\* mapping of that request while the second request has replaced the
\* mapping of the server by one without the service.
C23_Witness ==
    /\ nRecv = 2
    /\ "r1" \in zombie
    /\ ContextSchemas(mappings, contexts, "r1") = SchemaMapping
    /\ schemas # SchemaMapping
    /\ values_name \notin KeysOf(schemas)
    /\ KeysOf(schemas) # {}
    /\ pc = "callback"
    /\ ContextSchemas(mappings, contexts, state.id) = schemas

----------------------------------------------------------------------------
(* C24..C26: the path operations of a Payload (SpecPayload).               *)

\* The paths asked for after the calls, and the defaults given.
AskedPaths == PayloadPaths \cup {<<"a", "l">>, <<"a", "b", "c">>, <<"z">>}
Defaults == {None, Str("d")}

\* C24: after any sequence of set, append, extend and delete calls, a get
\* of any path, with any default, with or without the prefix, returns what
\* the reference map holds at that path after the same operations made on it
\* in plain terms, and the default where the reference holds nothing.
C24_GetMatchesReference ==
    pdoc # None =>
        \A path \in AskedPaths, default \in Defaults, prefix \in BOOLEAN :
            LET full == IF prefix THEN pdoc.prefix \o path ELSE path
                got == Payload_call(pdoc.doc, pdoc.prefix, "get", path, default, prefix)
            IN  /\ got.raised = ""
                /\ got.ret = IF RefAt(pdoc.ref, full) = Absent THEN default
                             ELSE RefAt(pdoc.ref, full)

\* Two calls were made, the second a delete below the first level that
\* removed what the first call had stored, and the document differs from
\* the one at the start.
C24_Witness ==
    /\ pdoc # None
    /\ pdoc.n = 2
    /\ pdoc.last.kind = "delete"
    /\ Len(Prefixed(pdoc.prefix, pdoc.last.path, pdoc.last.prefix)) = 2
    /\ pdoc.last.ret = TRUE
    /\ pdoc.last.before = Map1("b", Map1("c", ListV(<<Num(1)>>)))
    /\ pdoc.doc = Map1("b", EmptyMap)
    /\ Payload_get(pdoc.doc, <<"b", "c">>, Str("d")) = Str("d")

\* A path leads through a value of the document that is not a map.
CrossesNonMap(doc, full) ==
    \E i \in 1..(Len(full) - 1) :
        RefAt(doc, SubSeq(full, 1, i)).t \notin {"map", "absent"}

\* C25: on every document reached, for a path that is missing (which
\* includes one that leads through a value that is not a map) exists and
\* equals return False and get returns the default; a set, append or extend
\* through a value that is not a map, an append or extend onto a value that
\* is not a list, and a delete of a key that is not there return False; a
\* mutator that returns False leaves the whole document as it was; and none
\* of these calls raises.
C25_NoRaiseOnAbsence ==
    pdoc # None =>
        \A path \in AskedPaths, prefix \in BOOLEAN :
            LET full == IF prefix THEN pdoc.prefix \o path ELSE path
                here == RefAt(pdoc.doc, full)
                Made(kind, arg) ==
                    Payload_call(pdoc.doc, pdoc.prefix, kind, path, arg, prefix)
            IN  /\ here = Absent =>
                      /\ Made("exists", None) = [raised |-> "", ret |-> FALSE, doc |-> pdoc.doc]
                      /\ \A d \in Defaults :
                            /\ Made("get", d) = [raised |-> "", ret |-> d, doc |-> pdoc.doc]
                            /\ Made("equals", d) = [raised |-> "", ret |-> FALSE, doc |-> pdoc.doc]
                /\ \A kind \in {"set", "append", "extend", "delete"}, value \in PayloadValues :
                      LET r == Made(kind, IF kind = "extend" THEN <<value>> ELSE value)
                          cannot ==
                              \/ kind # "delete" /\ CrossesNonMap(pdoc.doc, full)
                              \/ kind \in {"append", "extend"}
                                    /\ here.t \notin {"list", "absent"}
                              \/ kind = "delete" /\ full # <<>> /\ here = Absent
                      IN  /\ cannot => r = [raised |-> "", ret |-> FALSE, doc |-> pdoc.doc]
                          /\ r.ret = FALSE => r.doc = pdoc.doc
                          /\ r.raised # "" => kind = "delete" /\ full = <<>>

\* The last call was an append through the string at "b": it returned False
\* and the document is the one before the call.
C25_Witness ==
    /\ pdoc # None
    /\ pdoc.last.kind = "append"
    /\ Prefixed(pdoc.prefix, pdoc.last.path, pdoc.last.prefix) = <<"b", "c">>
    /\ RefAt(pdoc.last.before, <<"b">>) = Str("s")
    /\ pdoc.last.ret = FALSE
    /\ pdoc.last.raised = ""
    /\ pdoc.doc = pdoc.last.before
    /\ ~Payload_exists(pdoc.doc, <<"b", "c">>)

\* C26: on every document reached, each of exists, equals, get, set, append,
\* extend and delete called with a path p returns the same, raises the same
\* and leaves the same document as the same call with the path prefix of
\* the class followed by p and prefixing suppressed.
C26_PrefixedCall ==
    pdoc # None =>
        \A path \in AskedPaths, value \in PayloadValues \cup Defaults,
           kind \in {"exists", "equals", "get", "set", "append", "extend", "delete"} :
            LET arg == IF kind = "extend" THEN <<value>> ELSE value
            IN  Payload_call(pdoc.doc, pdoc.prefix, kind, path, arg, TRUE)
                = Payload_call(pdoc.doc, pdoc.prefix, kind, pdoc.prefix \o path, arg,
                               FALSE)

\* A document with the prefix ["a"]: set(["b"], 1) was called with
\* prefixing and get(["a", "b"], prefix=False) returns the value set,
\* which get(["b"]) returns too, while nothing was stored at "b".
C26_Witness ==
    /\ pdoc # None
    /\ pdoc.prefix = <<"a">>
    /\ pdoc.last.kind = "set"
    /\ pdoc.last.path = <<"b">>
    /\ pdoc.last.prefix
    /\ pdoc.last.ret = TRUE
    /\ pdoc.last.arg = Num(1)
    /\ pdoc.last.before = EmptyMap
    /\ Payload_call(pdoc.doc, pdoc.prefix, "get", <<"a", "b">>, None, FALSE).ret = Num(1)
    /\ Payload_call(pdoc.doc, pdoc.prefix, "get", <<"b">>, None, TRUE).ret = Num(1)
    /\ ~Payload_exists(pdoc.doc, <<"b">>)

----------------------------------------------------------------------------
(* C27, C28: the serializer (SpecMsgpack).                                 *)

\* C27: a value that was packed and unpacked again is the value packed.
C27_RoundTrip ==
    (mp # None /\ mp.stage = "round") => mp.out = mp.value

\* The lists ['type', name, form] that are the encoding of a value.
WellFormedTyped ==
    {ListV(<<Str("type"), Str("date"), Str("2017-01-27")>>),
     ListV(<<Str("type"), Str("decimal"), ListV(<<Str("123"), Str("321")>>)>>),
     ListV(<<Str("type"), Str("datetime"), Str("2017-01-27T20:12:08.952811+00:00")>>),
     ListV(<<Str("type"), Str("time"), Str("20:12:08")>>)}

\* C28: unpacking bytes in which a list of three starts with 'type' and has
\* a type name that is not known, or a form that is not the encoding of a
\* value of its type, gives None in the place of the list, alone or inside a
\* map whose other entries are unpacked as they are.
C28_NullForBadTyped ==
    (mp # None /\ mp.stage = "decoded") =>
        LET w == mp.bytes.v
            bad(x) == x \notin WellFormedTyped
        IN  IF w.t = "list" THEN (bad(w) => mp.out = None)
            ELSE /\ mp.out.t = "map"
                 /\ DOMAIN mp.out.m = {"a", "b"}
                 /\ mp.out.m["a"] = Num(1)
                 /\ bad(w.m["b"]) => mp.out.m["b"] = None

----------------------------------------------------------------------------
(* C29: the reply of a middleware (Spec).                                  *)

\* The reply document in the third frame of the stream to send.
SentReply == unpack(stream[3])

\* A middleware callback returned its Request or a Response and the reply
\* is about to be sent.
MiddlewareReplied(action, cls) ==
    /\ pc = "send"
    /\ component = "middleware"
    /\ outcome = "returned"
    /\ state.action = action
    /\ result = cls

\* C29: the reply of a request callback that returned the Request has the
\* call and no response; the reply of a request callback that returned a
\* Response has the response and no call; the reply of a response callback
\* has no call; the flags frame of all three is the empty-flags sentinel.
C29_MiddlewareReply ==
    LET has(name) == Payload_exists(SentReply, ReplyPrefix \o <<name>>)
    IN  /\ MiddlewareReplied("request", "Request") =>
              has(ns.CALL) /\ ~has(ns.RESPONSE) /\ stream[2] = EMPTY_META
        /\ MiddlewareReplied("request", "Response") =>
              has(ns.RESPONSE) /\ ~has(ns.CALL) /\ stream[2] = EMPTY_META
        /\ MiddlewareReplied("response", "Response") =>
              ~has(ns.CALL) /\ stream[2] = EMPTY_META
        /\ (pc = "send" /\ component = "middleware" /\ outcome = "returned") =>
              \/ MiddlewareReplied("request", "Request")
              \/ MiddlewareReplied("request", "Response")
              \/ MiddlewareReplied("response", "Response")

\* A request callback made a response with status 418 and returned it: the
\* reply sent has that response and no call.
C29_Witness ==
    /\ MiddlewareReplied("request", "Response")
    /\ Payload_get(SentReply, ReplyPrefix \o <<ns.RESPONSE, ns.STATUS>>, None) = Str("418 Teapot")
    /\ ~Payload_exists(SentReply, ReplyPrefix \o <<ns.CALL>>)

----------------------------------------------------------------------------
(* C30: a message that is not of four frames (Spec).                       *)

\* What State.create logs for a message with fewer or more than four frames.
FrameCountErrors ==
    {"not enough values to unpack (expected 4, got " \o ToString(n) \o ")" : n \in 0..3}
        \cup {"too many values to unpack (expected 4)"}

\* C30: no state is made from a message that has not exactly four frames;
\* the step that receives one makes the error reply with the id '-', the
\* empty-flags sentinel and the message 'Failed to handle request', invokes
\* no callback and leaves the schema mapping of the process as it was, and
\* the next step of the loop sends that reply and polls again, the mapping
\* still unchanged.
C30_MalformedAnswered ==
    [][/\ \A n \in 1..MaxRequests : \A msg \in Inbound(component, n) :
              Len(msg) # 4 => State_create(msg) = None
       /\ (pc = "poll" /\ pc' # "poll" /\ state' = None) =>
              /\ pc' = "send"
              /\ stream' = <<Utf8("-"), EMPTY_META, ErrorReply("Failed to handle request")>>
              /\ ~invoked'
              /\ hookCalls' = hookCalls
              /\ schemas' = schemas
              /\ mappings' = mappings
       /\ (pc = "poll" /\ pc' # "poll" /\ state' # None) =>
              outcome' \notin FrameCountErrors
       /\ (pc = "send" /\ outcome \in FrameCountErrors /\ pc' # "send") =>
              /\ pc' = "poll"
              /\ nSent' = nSent + 1
              /\ ~invoked'
              /\ schemas' = schemas
              /\ mappings' = mappings]_vars

\* The second message has five frames, after a request that replaced the
\* schema mapping: the generic error is about to be sent and the mapping is
\* still the one of the first request.
C30_Witness ==
    /\ pc = "send"
    /\ nRecv = 2
    /\ outcome = "too many values to unpack (expected 4)"
    /\ stream = <<Utf8("-"), EMPTY_META, ErrorReply("Failed to handle request")>>
    /\ schemas = SchemaMapping
    /\ ~invoked

----------------------------------------------------------------------------
(* C31: command bytes that are not a map (Spec).                           *)

\* C31: a request for an action with a callback whose command bytes cannot
\* be unpacked, or unpack to something that is not a map, is answered with
\* the error 'The request contains an invalid payload' and the empty-flags
\* sentinel, and no callback is invoked for it.
C31_InvalidPayload ==
    (/\ pc \in {"callback", "send"}
     /\ state # None
     /\ state.action \in Callbacks(component)
     /\ ~(CanUnpack(state.payload) /\ IsMap(unpack(state.payload)))) =>
        /\ ~invoked
        /\ pc = "send"
        /\ stream = <<Utf8(state.id), EMPTY_META,
                      ErrorReply("The request contains an invalid payload")>>

----------------------------------------------------------------------------
(* C32, C37: Component.run and the socket of the server (SpecRun).         *)

\* How often an event is in the calls of the run.
Times(event) == Cardinality({i \in DOMAIN run.calls : run.calls[i] = event})

\* C32: once run is over, the startup callback was called first; the server
\* was created and started only if startup succeeded; the shutdown callback
\* was called exactly once, as the last call and after the server stopped;
\* and run returned true exactly when startup, the server and shutdown all
\* ended without an exception.
C32_RunOrder ==
    (run # None /\ run.pc \in {"returned", "raised"}) =>
        /\ run.on_startup # "none" => (Times("startup") = 1 /\ run.calls[1] = "startup")
        /\ Times("create_server") = IF run.on_startup = "Exception" THEN 0 ELSE 1
        /\ run.on_shutdown # "none" =>
              /\ Times("shutdown") = 1
              /\ run.calls[Len(run.calls)] = "shutdown"
        /\ Times("start") = Times("stopped")
        /\ run.pc = "returned"
        /\ run.ret <=> /\ run.on_startup # "Exception"
                       /\ run.create = "returns"
                       /\ Server_listen(run.way).raised = ""
                       /\ run.on_shutdown # "Exception"

\* C37: a socket that was bound is closed exactly once, whichever way the
\* listen loop was left; a socket that was not bound is not closed.
C37_SocketClosedOnce ==
    (run # None /\ run.pc \in {"shutdown", "returned"}) =>
        /\ run.bound => run.closes = 1
        /\ ~run.bound => run.closes = 0
        /\ run.bound <=> (Times("start") = 1
                            /\ run.way \in {"CancelledError", "EINTR", "ZMQError", "Exception"})

\* The loop was left by an exception of the handling of a request, the
\* socket is closed and run has returned false.
C37_Witness ==
    /\ run # None
    /\ run.pc = "returned"
    /\ run.way = "Exception"
    /\ run.bound
    /\ run.closes = 1
    /\ ~run.ret

----------------------------------------------------------------------------
(* C33: the version resolved (SpecVersion).                                *)

\* The number a sub-part of digits stands for.
RECURSIVE IntOf(_)
IntOf(sub) == IF sub = <<>> THEN 0 ELSE 10 * IntOf(SubSeq(sub, 1, Len(sub) - 1)) + (sub[Len(sub)] - 48)

\* a is a higher version than b: at the first part and sub-part where they
\* differ, the one that has ended is higher, an integer is higher than a
\* name, the larger of two integers and the later of two names is higher.
RECURSIVE Higher(_, _, _)
Higher(a, b, inner) ==
    IF a = <<>> \/ b = <<>> THEN a = <<>> /\ b # <<>>
    ELSE IF Head(a) = Head(b) THEN Higher(Tail(a), Tail(b), inner)
    ELSE IF ~inner THEN Higher(Head(a), Head(b), TRUE)
    ELSE LET num(sub) == \A i \in DOMAIN sub : sub[i] \in 48..57
         IN  IF num(Head(a)) /\ num(Head(b)) THEN IntOf(Head(a)) > IntOf(Head(b))
             ELSE IF num(Head(a)) # num(Head(b)) THEN num(Head(a))
             ELSE StrLess(Head(b), Head(a))

\* C33: the version resolved matches the pattern and no matching version of
\* the collection is higher, a larger integer being higher than a smaller
\* one; it is the empty string when no version matches.
C33_HighestMatch ==
    (vs # None /\ vs.done) =>
        LET matching == {i \in DOMAIN vs.versions :
                            VersionString_match(vs.pattern, vs.versions[i])}
        IN  IF matching = {} THEN vs.resolved = <<>>
            ELSE /\ \E i \in matching : vs.versions[i] = vs.resolved
                 /\ \A i \in matching : ~Higher(vs.versions[i], vs.resolved, FALSE)

----------------------------------------------------------------------------
(* C34: the callback of a request that timed out (Spec).                   *)

\* C34: the callback of a request that timed out does not run once the
\* timeout reply has been sent: a callback that outlived its timeout is
\* that of the request in hand, whose reply is still to be sent, so it
\* takes no step later and never runs beside the callback of a later
\* request, whether the callbacks are coroutines or not.
C34_CallbackCancelled ==
    \A rid \in zombie :
        /\ pc = "send"
        /\ outcome = "timeout"
        /\ state # None
        /\ state.id = rid

----------------------------------------------------------------------------
(* C35: has_calls (Spec).                                                  *)

\* has_calls of the Action's transport, for the service and version of the
\* component.
HasCalls(t) == Transport_has_calls(t, values_name, values_version)

\* C35: has_calls holds of the Action's transport exactly when a call
\* record of this service and version has no duration; a run-time call,
\* made or failed, is recorded with a duration and leaves has_calls as it
\* was, while a deferred call makes it true; and the reply of an action
\* that returns has the has-calls flag exactly when has_calls holds.
C35_HasCalls ==
    [][/\ (pc' = "callback" /\ component = "service") =>
              (HasCalls(transport') <=>
                   \E i \in DOMAIN CallsOf(transport') :
                       ns.DURATION \notin DOMAIN CallsOf(transport')[i].m)
       /\ Call => /\ HasCalls(transport') <=> HasCalls(transport)
                  /\ ns.DURATION \in DOMAIN CallsOf(transport')[Len(CallsOf(transport'))].m
       /\ DeferCall => HasCalls(transport')
       /\ (pc = "callback" /\ pc' = "send" /\ component = "service"
              /\ outcome' = "returned" /\ transport # None) =>
              (HasCalls(transport) <=> \E i \in DOMAIN stream'[2] : stream'[2][i] = 1)]_vars

\* An action made run-time calls and nothing else, and returned: the call
\* records of the reply all have a duration and the flags frame is the
\* empty-flags sentinel.
C35_Witness ==
    /\ ActionReplied
    /\ outcome = "returned"
    /\ InboundCommand = CommandWithTransport
    /\ Len(CallsOf(SentTransport)) = nOps
    /\ nOps > 0
    /\ \A i \in DOMAIN CallsOf(SentTransport) :
           Payload_get(CallsOf(SentTransport)[i], <<ns.DURATION>>, None) = Num(5)
    /\ stream[2] = EMPTY_META

----------------------------------------------------------------------------
(* C36: Server.stop (SpecStop).                                            *)

\* C36: after stop, cancel was called on every task that had not finished;
\* when a task had failed with an exception, stop raised the exception of
\* such a task, and otherwise it raised nothing.
C36_StopCancelsAll ==
    (tasks # None /\ tasks.stopped) =>
        LET failed == {i \in DOMAIN tasks.order :
                          tasks.order[i] \notin {"pending", "result", "cancelled"}}
        IN  /\ \A i \in DOMAIN tasks.order :
                   tasks.order[i] = "pending" => i \in tasks.cancelled
            /\ IF failed = {} THEN tasks.raised = ""
               ELSE \E i \in failed : tasks.raised = tasks.order[i]

----------------------------------------------------------------------------
(* C38: a property set by the action (Spec).                               *)

\* The reply document holds the property 'p' with the value 'v'.
HasProperty(doc) ==
    Payload_get(doc, ReplyPrefix \o <<ns.TRANSPORT, ns.META, ns.PROPERTIES, "p">>, None)
        = Str("v")

\* C38: set_property puts the property under meta.properties of the
\* transport of the reply; whatever the callback does next, run-time calls
\* included, the reply still holds it, and so does the reply that is sent
\* when the callback returns.
C38_PropertyKept ==
    [][/\ SetProperty => HasProperty(reply')
       /\ (pc = "callback" /\ HasProperty(reply) /\ pc' = "callback") => HasProperty(reply')
       /\ (pc = "callback" /\ HasProperty(reply) /\ pc' = "send" /\ outcome' = "returned")
              => HasProperty(unpack(stream'[3]))]_vars

----------------------------------------------------------------------------
(* C39: conflicts of a merge (SpecMerge).                                  *)

\* The merge as the claim describes it: a key of one side only is taken,
\* two maps are merged, two lists extended, and on any other pair the
\* destination value is kept.
RECURSIVE MergedAsClaimed(_, _)
MergedAsClaimed(src, dest) ==
    LET one(k) ==
            IF k \notin DOMAIN dest.m THEN src.m[k]
            ELSE IF k \notin DOMAIN src.m THEN dest.m[k]
            ELSE IF IsMap(src.m[k]) /\ IsMap(dest.m[k])
                 THEN MergedAsClaimed(src.m[k], dest.m[k])
                 ELSE IF IsList(src.m[k]) /\ IsList(dest.m[k])
                      THEN ListV(dest.m[k].l \o src.m[k].l)
                      ELSE dest.m[k]
    IN  MapV([k \in DOMAIN src.m \cup DOMAIN dest.m |-> one(k)])

\* The merge of a transport payload, at one mergeable path, came out as the
\* claim describes it.
PathMergedAsClaimed(path) ==
    LET src == Payload_get(mArg.doc, path, None)
        before == Payload_get(mBefore.transport, path, None)
        after == Payload_get(tb.transport, path, None)
    IN  IF src = None THEN after = before
        ELSE IF before = None
             THEN after = (IF IsMap(src) THEN src ELSE EmptyMap)
             ELSE IF IsMap(src) /\ IsMap(before)
                  THEN after = MergedAsClaimed(src, before)
                  ELSE after = before

\* C39: a merge of a transport payload never fails, and at every mergeable
\* path the transport afterwards holds the keys of one side only, the maps
\* merged, the lists extended and, for any other pair of values under one
\* key, the destination value unchanged.
C39_MergeNeverFails ==
    (mArg # None /\ IsTransportPayload(mArg)) =>
        /\ mRaised = ""
        /\ \A i \in DOMAIN MERGEABLE_PATHS : PathMergedAsClaimed(MERGEABLE_PATHS[i])

----------------------------------------------------------------------------
(* C40: the headers of an HTTP response (SpecHeaders).                     *)

\* C40: after any calls of set_header, every header stored in the reply
\* holds the list of values get_header_array gives for its name, and that
\* list is the values set without overwrite in their order after the last
\* value set with overwrite.
C40_HeadersStored ==
    (http # None /\ http.n > 0) =>
        LET hdrs == Payload_get(http.reply, ReplyPrefix \o <<ns.RESPONSE, ns.HEADERS>>,
                                EmptyMap).m
        IN  /\ \A name \in DOMAIN hdrs :
                   /\ hdrs[name] = ListV(HttpResponse_get_header_array(http, name))
                   /\ HttpResponse_get_header_array(http, name) = http.want[str_upper(name)]
            /\ \A u \in DOMAIN http.headers : \E name \in DOMAIN hdrs : str_upper(name) = u

============================================================================
